---- MODULE Spec2Model ----
(***************************************************************************)
(* A model of the PES stats paste add-on (src/js/content.js).              *)
(*                                                                         *)
(* Part 1: parsePlayerText, the line-oriented record parser.               *)
(* Part 2: the UI synchronization run started by setPlayerData.            *)
(*                                                                         *)
(* Strings are sequences of tokens.  A token is one character (" ", ":",   *)
(* ",", "*", a letter, a digit) or a word the code never looks inside (a   *)
(* section-header word, the label Positions).  The input text is kept as   *)
(* the sequence of its raw lines, i.e. as text.split(/\r?\n/) returns it.  *)
(***************************************************************************)
EXTENDS Integers, Sequences, FiniteSets, TLC

VARIABLES text, lines, idx, section, player, ppc

pvars == <<text, lines, idx, section, player, ppc>>

\* the state of a run of setPlayerData (described further down); log holds
\* the fields and regions the current run has reported on the console,
\* start remembers the controls as they were when the run began, snap as
\* the first completed run left them; alerts counts the alert dialogs shown,
\* parsed tells whether the current run has called parsePlayerText, order
\* lists the passes the current run has called so far
VARIABLES clip, tree, ui, pc, runs, cb, sel, bulk, ptodo, scans, snap, log, start,
          alerts, parsed, order

svars ==
    <<clip, tree, ui, pc, runs, cb, sel, bulk, ptodo, scans, snap, log, start, alerts,
      parsed, order>>

\* the state of the Paste Stats button and of the observer (Part 3)
VARIABLES tabs, btn, pending, fresh, tpc

tvars == <<tabs, btn, pending, fresh, tpc>>

\* the state of a call of getElementByText (Part 4)
VARIABLES groot, needle, scan, found

gvars == <<groot, needle, scan, found>>

\* the state of a call of setAllRadiosToValue on a page that replaces its
\* nodes (Part 5)
VARIABLES gen, checked, radios, ri, bpc, detached

nvars == <<gen, checked, radios, ri, bpc, detached>>

\* the state of a call of getContentByDivTitle (Part 6)
VARIABLES doc, dpc, contentDiv

dvars == <<doc, dpc, contentDiv>>

\* the state of the runs that several clicks start (Part 7)
VARIABLES runpc, record, clipboard, form

cvars == <<runpc, record, clipboard, form>>

\* the state of a call of setNationality of the earlier script (Part 8)
VARIABLES natCountry, natArg, natOptions, natLabel, natTrigger, natCalls, natpc, natResult,
          natSelected

avars ==
    <<natCountry, natArg, natOptions, natLabel, natTrigger, natCalls, natpc, natResult,
      natSelected>>

vars == <<pvars, svars, tvars, gvars, nvars, dvars, cvars, avars>>

(***************************************************************************)
(* Bounds of the parser's inputs.                                          *)
(***************************************************************************)
MaxLines == 3
MaxChars == 8

(***************************************************************************)
(* String primitives of JavaScript used by the parser.                     *)
(***************************************************************************)
SP == " "
COLON == ":"
COMMA == ","
STAR == "*"

IsSpace(c) == c = SP

Digits == {"0", "5", "8"}

DigitVal(c) == CASE c = "0" -> 0 [] c = "5" -> 5 [] c = "8" -> 8 [] OTHER -> 0

\* String.prototype.trim
RECURSIVE TrimLeft(_)
TrimLeft(s) == IF s # <<>> /\ IsSpace(Head(s)) THEN TrimLeft(Tail(s)) ELSE s

RECURSIVE TrimRight(_)
TrimRight(s) ==
    IF s # <<>> /\ IsSpace(s[Len(s)]) THEN TrimRight(SubSeq(s, 1, Len(s) - 1)) ELSE s

Trim(s) == TrimRight(TrimLeft(s))

\* String.prototype.split(sep) for a one-character separator: every piece,
\* empty ones included; the empty string splits into one empty piece.
RECURSIVE SplitFrom(_, _, _)
SplitFrom(s, sep, cur) ==
    IF s = <<>> THEN <<cur>>
    ELSE IF Head(s) = sep THEN <<cur>> \o SplitFrom(Tail(s), sep, <<>>)
    ELSE SplitFrom(Tail(s), sep, Append(cur, Head(s)))

Split(s, sep) == SplitFrom(s, sep, <<>>)

\* Array.prototype.map(s => s.trim())
MapTrim(ss) == [i \in 1..Len(ss) |-> Trim(ss[i])]

\* Array.prototype.filter(Boolean) on strings: the empty string is falsy
RECURSIVE FilterNonEmpty(_)
FilterNonEmpty(ss) ==
    IF ss = <<>> THEN <<>>
    ELSE IF Head(ss) = <<>> THEN FilterNonEmpty(Tail(ss))
    ELSE <<Head(ss)>> \o FilterNonEmpty(Tail(ss))

\* String.prototype.startsWith("*")
StartsWithStar(s) == s # <<>> /\ Head(s) = STAR

\* String.prototype.substring(1)
Substring1(s) == IF s = <<>> THEN <<>> ELSE Tail(s)

\* String.prototype.replace("*", ""): removes the first "*" only
RECURSIVE ReplaceFirstStar(_)
ReplaceFirstStar(s) ==
    IF s = <<>> THEN <<>>
    ELSE IF Head(s) = STAR THEN Tail(s)
    ELSE <<Head(s)>> \o ReplaceFirstStar(Tail(s))

\* Number(s) of a trimmed string over the model's alphabet: the empty string
\* converts to 0, a run of decimal digits to its value, anything else to NaN.
IsDecimal(s) == s # <<>> /\ \A i \in 1..Len(s) : s[i] \in Digits

RECURSIVE DecimalValue(_)
DecimalValue(s) ==
    IF s = <<>> THEN 0
    ELSE 10 * DecimalValue(SubSeq(s, 1, Len(s) - 1)) + DigitVal(s[Len(s)])

\* isNaN(s): Number(s) is NaN
IsNaN(s) == ~(Trim(s) = <<>> \/ IsDecimal(Trim(s)))

Number(s) == DecimalValue(Trim(s))

(***************************************************************************)
(* Values of the record.                                                   *)
(***************************************************************************)
NumVal(n) == [t |-> "num", n |-> n]
StrVal(s) == [t |-> "str", s |-> s]

\* the value JavaScript calls undefined, as a string no input contains
Undefined == <<"undefined">>

EmptyMap == <<>>

Put(m, k, v) == [x \in (DOMAIN m) \cup {k} |-> IF x = k THEN v ELSE m[x]]

EmptyPlayer ==
    [basic |-> EmptyMap, appearance |-> EmptyMap, stats |-> EmptyMap,
     skills |-> EmptyMap, comPlayingStyles |-> EmptyMap, positions |-> EmptyMap,
     playingStyle |-> <<>>]

(***************************************************************************)
(* Section headers: /^APPEARANCE:/i and the four others.                   *)
(***************************************************************************)
HeaderWords ==
    {"APPEARANCE", "STATS", "CARD PLAYER SKILL", "CARD STYLE COM", "PLAYING STYLE"}

\* case folding of the i flag, on the words of the alphabet
Upper(tok) == IF tok = "stats" THEN "STATS" ELSE tok

\* /^WORD:/i.test(line)
MatchesHeader(line, word) ==
    Len(line) >= 2 /\ Upper(line[1]) = word /\ line[2] = COLON

IsHeaderLine(line) == \E w \in HeaderWords : MatchesHeader(line, w)

SectionOfHeader(word) ==
    CASE word = "APPEARANCE" -> "appearance"
      [] word = "STATS" -> "stats"
      [] word = "CARD PLAYER SKILL" -> "skills"
      [] word = "CARD STYLE COM" -> "comPlayingStyles"
      [] word = "PLAYING STYLE" -> "playingStyle"

HeaderSection(line) ==
    SectionOfHeader(CHOOSE w \in HeaderWords : MatchesHeader(line, w))

(***************************************************************************)
(* const [key, val] = line.split(":").map(s => s.trim())                   *)
(***************************************************************************)
KeyOf(line) == Trim(Split(line, COLON)[1])

HasVal(line) == Len(Split(line, COLON)) >= 2

ValOf(line) == IF HasVal(line) THEN Trim(Split(line, COLON)[2]) ELSE Undefined

\* a faulty guard that forgets the test of val: C6_Total tells it apart
SkipsLine_NoValCheck(line) == KeyOf(line) = <<>>

\* if (!key || val === undefined) continue;   (key && val !== undefined)
SkipsLine(line) == KeyOf(line) = <<>> \/ ~HasVal(line)

(***************************************************************************)
(* The body of the loop, one operator per section: the record after the    *)
(* line has been handled.                                                  *)
(***************************************************************************)
\* one entry of val.split(",").forEach(...)
PositionEntry(positions, entry) ==
    LET pos == Trim(entry)
    IN  IF pos = <<>> THEN positions
        ELSE IF StartsWithStar(pos) THEN Put(positions, Substring1(pos), "A")
        ELSE Put(positions, pos, "B")

RECURSIVE PositionEntries(_, _)
PositionEntries(positions, entries) ==
    IF entries = <<>> THEN positions
    ELSE PositionEntries(PositionEntry(positions, Head(entries)), Tail(entries))

\* val.split(",") of an undefined val raises a TypeError
BasicThrows(line) ==
    ~SkipsLine(line) /\ KeyOf(line) = <<"Positions">> /\ ~HasVal(line)

BasicLine(line, p) ==
    IF SkipsLine(line) \/ BasicThrows(line) THEN p
    ELSE IF KeyOf(line) = <<"Positions">>
         THEN [p EXCEPT !.positions = PositionEntries(@, Split(ValOf(line), COMMA))]
         ELSE [p EXCEPT !.basic = Put(@, KeyOf(line), ValOf(line))]

AppearanceLine(line, p) ==
    IF SkipsLine(line) THEN p
    ELSE [p EXCEPT !.appearance = Put(@, KeyOf(line), ValOf(line))]

StatsValue(val) == IF IsNaN(val) THEN StrVal(val) ELSE NumVal(Number(val))

StatsLine(line, p) ==
    IF SkipsLine(line) THEN p
    ELSE [p EXCEPT !.stats = Put(@, KeyOf(line), StatsValue(ValOf(line)))]

\* a faulty variant that keeps the spaces around the name: C4_MarkedOnly
\* tells it apart
MarkedName_NoTrim(line) == ReplaceFirstStar(line)

\* line.replace("*", "").trim()
MarkedName(line) == Trim(ReplaceFirstStar(line))

SkillsLine(line, p) ==
    IF StartsWithStar(line) THEN [p EXCEPT !.skills = Put(@, MarkedName(line), TRUE)]
    ELSE p

ComLine(line, p) ==
    IF StartsWithStar(line)
    THEN [p EXCEPT !.comPlayingStyles = Put(@, MarkedName(line), TRUE)]
    ELSE p

\* a faulty variant that keeps the first line of the section:
\* C25_LastStyleLine tells it apart
PlayingStyleLine_KeepFirst(line, p) ==
    IF line # <<>> /\ p.playingStyle = <<>> THEN [p EXCEPT !.playingStyle = line] ELSE p

PlayingStyleLine(line, p) == IF line # <<>> THEN [p EXCEPT !.playingStyle = line] ELSE p

Dispatch(sec, line, p) ==
    CASE sec = "basic" -> BasicLine(line, p)
      [] sec = "appearance" -> AppearanceLine(line, p)
      [] sec = "stats" -> StatsLine(line, p)
      [] sec = "skills" -> SkillsLine(line, p)
      [] sec = "comPlayingStyles" -> ComLine(line, p)
      [] sec = "playingStyle" -> PlayingStyleLine(line, p)

(***************************************************************************)
(* Inputs: texts of at most MaxLines raw lines and MaxChars tokens.        *)
(***************************************************************************)
Labels == {<<>>, <<"a">>, <<"Positions">>}

Values ==
    {<<>>, <<"a">>, <<"8", "5">>, <<"0", "5">>, <<"8", "a">>, <<"a", COLON, "b">>,
     <<STAR>>, <<STAR, "a">>, <<STAR, SP, "a">>, <<STAR, "a", COMMA, "b">>,
     <<"a", COMMA, SP, STAR, "a">>}

LabelLines ==
    {k \o <<COLON>> \o v : k \in Labels, v \in Values}
        \cup {<<"b", COLON, "a">>, <<SP, "a", SP, COLON, SP, "a">>}

HeaderLines ==
    {<<w, COLON>> : w \in HeaderWords}
        \cup {<<"stats", COLON>>, <<SP, "STATS", COLON, SP>>, <<"STATS", COLON, "8">>,
              <<"STATS">>, <<"STATS", SP, COLON, "8">>}

MarkLines ==
    {<<>>, <<SP>>, <<"a">>, <<"Positions">>, <<STAR>>, <<STAR, "a">>, <<STAR, SP, "a">>,
     <<SP, STAR, "b", SP>>, <<STAR, "a", STAR>>}

RawLines == LabelLines \cup HeaderLines \cup MarkLines

\* the texts of at most n lines and at most budget tokens
RECURSIVE TextsOf(_, _)
TextsOf(n, budget) ==
    IF n = 0 THEN {<<>>}
    ELSE {<<>>} \cup
         UNION {{<<l>> \o t : t \in TextsOf(n - 1, budget - Len(l))} :
                    l \in {r \in RawLines : Len(r) <= budget}}

(***************************************************************************)
(* parsePlayerText as a state machine: one step per iteration of the loop. *)
(***************************************************************************)
\* text.split(/\r?\n/).map(l => l.trim()).filter(Boolean)
LinesOf(t) == FilterNonEmpty(MapTrim(t))

ParseInit ==
    /\ text \in TextsOf(MaxLines, MaxChars)
    /\ lines = LinesOf(text)
    /\ idx = 1
    /\ section = "basic"
    /\ player = EmptyPlayer
    /\ ppc = "loop"

InLoop == ppc = "loop" /\ idx <= Len(lines)

CurLine == lines[idx]

ParseHeader ==
    /\ InLoop
    /\ IsHeaderLine(CurLine)
    /\ section' = HeaderSection(CurLine)
    /\ idx' = idx + 1
    /\ UNCHANGED <<svars, tvars, gvars, nvars, dvars, cvars, avars, text, lines, player, ppc>>

\* a faulty variant without the continue of a header line: C5_SectionCursor
\* tells it apart
DataLine_NoContinue(sec) == InLoop /\ section = sec

DataLine(sec) == InLoop /\ ~IsHeaderLine(CurLine) /\ section = sec

ParseBasic ==
    /\ DataLine("basic")
    /\ player' = BasicLine(CurLine, player)
    /\ IF BasicThrows(CurLine)
       THEN ppc' = "threw" /\ idx' = idx
       ELSE ppc' = ppc /\ idx' = idx + 1
    /\ UNCHANGED <<svars, tvars, gvars, nvars, dvars, cvars, avars, text, lines, section>>

ParseAppearance ==
    /\ DataLine("appearance")
    /\ player' = AppearanceLine(CurLine, player)
    /\ idx' = idx + 1
    /\ UNCHANGED <<svars, tvars, gvars, nvars, dvars, cvars, avars, text, lines, section, ppc>>

ParseStats ==
    /\ DataLine("stats")
    /\ player' = StatsLine(CurLine, player)
    /\ idx' = idx + 1
    /\ UNCHANGED <<svars, tvars, gvars, nvars, dvars, cvars, avars, text, lines, section, ppc>>

ParseSkills ==
    /\ DataLine("skills")
    /\ player' = SkillsLine(CurLine, player)
    /\ idx' = idx + 1
    /\ UNCHANGED <<svars, tvars, gvars, nvars, dvars, cvars, avars, text, lines, section, ppc>>

ParseCom ==
    /\ DataLine("comPlayingStyles")
    /\ player' = ComLine(CurLine, player)
    /\ idx' = idx + 1
    /\ UNCHANGED <<svars, tvars, gvars, nvars, dvars, cvars, avars, text, lines, section, ppc>>

ParsePlayingStyle ==
    /\ DataLine("playingStyle")
    /\ player' = PlayingStyleLine(CurLine, player)
    /\ idx' = idx + 1
    /\ UNCHANGED <<svars, tvars, gvars, nvars, dvars, cvars, avars, text, lines, section, ppc>>

ParseReturn ==
    /\ ppc = "loop"
    /\ idx > Len(lines)
    /\ ppc' = "done"
    /\ UNCHANGED <<svars, tvars, gvars, nvars, dvars, cvars, avars, text, lines, idx, section,
                   player>>

ParseNext ==
    \/ ParseHeader
    \/ ParseBasic
    \/ ParseAppearance
    \/ ParseStats
    \/ ParseSkills
    \/ ParseCom
    \/ ParsePlayingStyle
    \/ ParseReturn

(***************************************************************************)
(* Part 2: the synchronization run started by the Paste Stats button.      *)
(*                                                                         *)
(* The page is kept as the state of its controls (ui) and what it renders  *)
(* (tree).  A control is named by its region and its label text.  Strings  *)
(* of the page are atoms: the engine only compares them.                   *)
(*                                                                         *)
(* JavaScript runs each piece of code between two awaits without           *)
(* interruption: every action below is one such piece, pc the await the    *)
(* run is suspended at.                                                    *)
(***************************************************************************)
\* how many times the button is clicked
MaxRuns == 2

\* values of the record as the engine sees them
JsUndefined == [t |-> "undefined"]

JsNull == [t |-> "null"]

\* value == null
IsNullish(v) == v.t \in {"undefined", "null"}

\* player.basic["Age"]: the value of a property, undefined when it is missing
Prop(m, k) == IF k \in DOMAIN m THEN m[k] ELSE JsUndefined

\* String(value)
JsString(v) ==
    CASE v.t = "num" -> ToString(v.n)
      [] v.t = "str" -> v.s
      [] v.t = "nan" -> "NaN"
      [] v.t = "undefined" -> "undefined"
      [] v.t = "null" -> "null"

NaN == [t |-> "nan"]

\* the integer a text of the record starts with, for the texts of Records
IntegerPrefix == [s \in {"169", "169 cm", "72kg"} |-> IF s = "72kg" THEN 72 ELSE 169]

\* parseInt(value)
ParseInt(v) ==
    IF v.t = "str" /\ v.s \in DOMAIN IntegerPrefix
    THEN [t |-> "num", n |-> IntegerPrefix[v.s]]
    ELSE NaN

\* text === value, for a text of the page
TextEquals(txt, v) == v.t = "str" /\ v.s = txt

INFO == "Info"
POSITION == "Overall & Position"
ABILITY == "Ability"
SKILLS == "Player Skills"
COMSTYLES == "COM Playing Styles"

Regions == {INFO, POSITION, ABILITY, SKILLS, COMSTYLES}

NotFound == "null"

\* getContentByDivTitle: the region that follows the title, when rendered
getContentByDivTitle(title) == IF title \in tree.regions THEN title ELSE NotFound

(***************************************************************************)
(* The setters.  u is the state of the controls, root a region.            *)
(***************************************************************************)
\* what a console.log of a failed field or of a missing region adds
Reported(lg, ok, root, elText) == IF ok THEN lg ELSE lg \cup {<<root, elText>>}

\* the value setInputByElementText returns
setInputReturns(u, root, elText, value) ==
    ~IsNullish(value) /\ <<root, elText>> \in DOMAIN u.text

\* a faulty variant without the test of value == null: C12_MissingField
\* tells it apart
setInputByElementText_NoNullTest(u, root, elText, value) ==
    IF <<root, elText>> \notin DOMAIN u.text THEN u
    ELSE [u EXCEPT !.text[<<root, elText>>] = JsString(value)]

setInputByElementText(u, root, elText, value) ==
    IF IsNullish(value) THEN u
    ELSE IF <<root, elText>> \notin DOMAIN u.text THEN u
    ELSE [u EXCEPT !.text[<<root, elText>>] = JsString(value)]

\* !!value of a value that is not nullish
Truthy(v) == v.t = "bool" /\ v.b

\* the value setCheckboxByElementText returns
setCheckboxReturns(u, root, elText, value) ==
    ~IsNullish(value) /\ <<root, elText>> \in DOMAIN u.check

setCheckboxByElementText(u, root, elText, value) ==
    IF IsNullish(value) THEN u
    ELSE IF <<root, elText>> \notin DOMAIN u.check THEN u
    ELSE [u EXCEPT !.check[<<root, elText>>] = Truthy(value)]

setAllCheckboxesToValue(u, root, value) ==
    IF root = NotFound THEN u
    ELSE [u EXCEPT !.check =
              [c \in DOMAIN u.check |-> IF c[1] = root THEN value ELSE u.check[c]]]

\* for (const k in m) set...(root, k, m[k])
RECURSIVE SetCheckboxes(_, _, _, _)
SetCheckboxes(u, root, m, keys) ==
    IF keys = {} THEN u
    ELSE LET k == CHOOSE x \in keys : TRUE
         IN  SetCheckboxes(setCheckboxByElementText(u, root, k, m[k]), root, m, keys \ {k})

RECURSIVE SetInputs(_, _, _, _)
SetInputs(u, root, m, keys) ==
    IF keys = {} THEN u
    ELSE LET k == CHOOSE x \in keys : TRUE
         IN  SetInputs(setInputByElementText(u, root, k, m[k]), root, m, keys \ {k})

fillCOMPlayingstyles(u, comPlayingStyles) ==
    LET root == getContentByDivTitle(COMSTYLES)
    IN  IF root = NotFound THEN u
        ELSE SetCheckboxes(setAllCheckboxesToValue(u, root, FALSE), root,
                           comPlayingStyles, DOMAIN comPlayingStyles)

\* a faulty variant without the bulk clear: C10_BulkThenOverride tells it apart
fillPlayerSkills_NoClear(u, playerSkills) ==
    LET root == getContentByDivTitle(SKILLS)
    IN  IF root = NotFound THEN u
        ELSE SetCheckboxes(u, root, playerSkills, DOMAIN playerSkills)

fillPlayerSkills(u, playerSkills) ==
    LET root == getContentByDivTitle(SKILLS)
    IN  IF root = NotFound THEN u
        ELSE SetCheckboxes(setAllCheckboxesToValue(u, root, FALSE), root,
                           playerSkills, DOMAIN playerSkills)

\* a faulty variant that empties every input of the region first:
\* C24_AbilityFrame tells it apart
fillAbility_Clear(u, stats) ==
    LET root == getContentByDivTitle(ABILITY)
        cleared == [u EXCEPT !.text = [f \in DOMAIN u.text |->
                                          IF f[1] = root THEN "" ELSE u.text[f]]]
    IN  IF root = NotFound THEN u ELSE SetInputs(cleared, root, stats, DOMAIN stats)

fillAbility(u, stats) ==
    LET root == getContentByDivTitle(ABILITY)
    IN  IF root = NotFound THEN u ELSE SetInputs(u, root, stats, DOMAIN stats)

(***************************************************************************)
(* Radio groups.  A click on an option is handled by the page: it checks   *)
(* the option or leaves the group as it was.                               *)
(***************************************************************************)
RadioOptions(key) == IF key[1] = INFO THEN {"L", "R"} ELSE {"A", "B", "C"}

\* el and el.querySelector(`input[type="radio"][value="${value}"]`) exist
RadioFound(u, root, elText, value) ==
    /\ elText.t = "str"
    /\ <<root, elText.s>> \in DOMAIN u.radio
    /\ JsString(value) \in RadioOptions(<<root, elText.s>>)

\* a faulty variant that never finds the option checked after the tick:
\* C20_TwoTier tells it apart
RadioChecked_Never(u, key, value) == FALSE

\* radio.checked
RadioChecked(u, key, value) == u.radio[key] = value

setReactSelect(u, key, value) == [u EXCEPT !.radio[key] = value]

NoSel == [key |-> <<NotFound, NotFound>>, value |-> NotFound, next |-> NotFound]

\* setSelectByElementText up to its first await, or to its return of false,
\* which the caller reports; lg is what the caller has reported so far
BeginSelect(u, lg, root, elText, value, next) ==
    IF RadioFound(u, root, elText, value)
    THEN /\ \E accepted \in BOOLEAN :
              ui' = IF accepted THEN setReactSelect(u, <<root, elText.s>>, JsString(value))
                    ELSE u
         /\ sel' = [key |-> <<root, elText.s>>, value |-> JsString(value), next |-> next]
         /\ pc' = "selTick"
         /\ log' = lg
    ELSE /\ ui' = u
         /\ sel' = sel
         /\ pc' = next
         /\ log' = Reported(lg, FALSE, root, JsString(elText))

(***************************************************************************)
(* Comboboxes.  The trigger button toggles the option list; the buttons of *)
(* the element are the trigger, showing the selected option, and, while    *)
(* the list is open, the options the page renders.                         *)
(***************************************************************************)
NoCb ==
    [root |-> NotFound, label |-> NotFound, option |-> JsUndefined, fallback |-> NotFound,
     anyText |-> FALSE,
     next |-> NotFound, depth |-> 0, result |-> "none"]

ClickTrigger(u, label) == [u EXCEPT !.combo[label].open = ~@]

ClickOption(u, label, option) ==
    [u EXCEPT !.combo[label] = [open |-> FALSE, selected |-> option]]

\* getText(b, anyText) of the trigger
TriggerText(u, label, anyText) == u.combo[label].selected

\* getText(b, anyText) of the buttons el.querySelectorAll("button") finds
ButtonTexts(u, label, anyText) ==
    {TriggerText(u, label, anyText)}
        \cup (IF u.combo[label].open THEN tree.options[label] ELSE {})

OptionFound(u, frame) ==
    \E txt \in ButtonTexts(u, frame.label, frame.anyText) : TextEquals(txt, frame.option)

\* opt.click(): the first matching button in document order is the trigger
ClickFound(u, frame) ==
    IF TextEquals(TriggerText(u, frame.label, frame.anyText), frame.option)
    THEN ClickTrigger(u, frame.label)
    ELSE ClickOption(u, frame.label, frame.option.s)

\* a faulty guard that never stops the recursion: C8_FallbackOnce tells it
\* apart
IsFallbackItself_Never(option, fallbackOption) == FALSE

\* !opt && option === fallbackOption
IsFallbackItself(option, fallbackOption) == TextEquals(fallbackOption, option)

\* setComboboxByElementText up to its first await
BeginCombobox(u, lg, root, elText, option, fallbackOption, anyText, next) ==
    IF elText \in DOMAIN u.combo
    THEN /\ ui' = ClickTrigger(u, elText)
         /\ cb' = [root |-> root, label |-> elText, option |-> option,
                   fallback |-> fallbackOption,
                   anyText |-> anyText, next |-> next, depth |-> 0, result |-> "pending"]
         /\ scans' = 0
         /\ pc' = "comboWait"
         /\ log' = lg
    ELSE /\ ui' = u
         /\ cb' = [NoCb EXCEPT !.result = "false"]
         /\ scans' = 0
         /\ pc' = next
         /\ log' = Reported(lg, FALSE, root, elText)

(***************************************************************************)
(* Inputs of a run: the record the clipboard text parses to, and the page. *)
(***************************************************************************)
BoolVal(b) == [t |-> "bool", b |-> b]

BasicCommon ==
    [k \in {"Name", "Shirt Name", "Age", "Foot", "Reputation", "Registered Position"} |->
        CASE k = "Name" -> StrVal("L. Messi")
          [] k = "Shirt Name" -> StrVal("MESSI")
          [] k = "Age" -> StrVal("37")
          [] k = "Foot" -> StrVal("L")
          [] k = "Reputation" -> StrVal("6")
          [] k = "Registered Position" -> StrVal("CF")]

Basics ==
    {BasicCommon, [k \in DOMAIN BasicCommon \ {"Age"} |-> BasicCommon[k]],
     [BasicCommon EXCEPT !["Foot"] = StrVal("Both")]}
        \cup {[k \in DOMAIN BasicCommon \cup {"Nationality"} |->
                  IF k = "Nationality" THEN StrVal(n) ELSE BasicCommon[k]] :
              n \in {"Chile", "Atlantis"}}

\* Height and Weight as exported, a Height with a blank before its unit and
\* no Weight, and a Height that is not a number
Appearances ==
    {[k \in {"Height", "Weight"} |-> IF k = "Height" THEN StrVal(h) ELSE StrVal("72kg")] :
         h \in {"169", "tall"}}
        \cup {[k \in {"Height"} |-> StrVal("169 cm")]}

TrueMap(keys) == [k \in keys |-> BoolVal(TRUE)]

Records ==
    [basic : Basics,
     appearance : Appearances,
     stats : {[k \in {"Speed", "Form"} |-> IF k = "Speed" THEN NumVal(85) ELSE StrVal("B")]},
     skills : {TrueMap(ks) : ks \in {{}, {"Heading", "Leader"}}},
     comPlayingStyles : {TrueMap(ks) : ks \in {{}, {"Trickster"}}},
     positions : {<<>>,
                  <<[code |-> "RWF", tier |-> "A"], [code |-> "CF", tier |-> "B"]>>,
                  <<[code |-> "SS", tier |-> "B"], [code |-> "RWF", tier |-> "B"]>>},
     playingStyle : {StrVal(""), StrVal("Anchor Man")}]

\* the regions the page renders, and the options each combobox renders
\* while its list is open
Trees ==
    [regions : {Regions} \cup {Regions \ {r} : r \in Regions},
     options : {[l \in {"Country/Region", "Playing Style"} |->
                    IF l = "Playing Style" THEN {"Anchor Man", "N/A"} ELSE os] :
                os \in {{"Chile", "- Others"}, {"Chile"}}}]

TextFields ==
    {<<INFO, l>> : l \in {"Player Name", "Shirt name (club)", "Shirt name (national team)",
                          "Age", "Reputation", "Height (cm)", "Weight (kg)"}}
        \cup {<<POSITION, "Registered Position">>, <<ABILITY, "Speed">>, <<ABILITY, "Stamina">>}

CheckFields ==
    {<<SKILLS, "Heading">>, <<SKILLS, "Captaincy">>, <<COMSTYLES, "Trickster">>,
     <<COMSTYLES, "Long Ranger">>}

RadioFields ==
    {<<INFO, "Stronger Foot">>, <<POSITION, "CF">>, <<POSITION, "RWF">>, <<POSITION, "GK">>}

\* the position groups in document order
PositionGroups == <<"CF", "RWF", "GK">>

InitialUis ==
    {[text |-> [f \in TextFields |-> "old"],
      check |-> [f \in CheckFields |->
                    IF f = <<SKILLS, "Heading">> THEN heading
                    ELSE f \in {<<SKILLS, "Captaincy">>, <<COMSTYLES, "Long Ranger">>}],
      radio |-> [f \in RadioFields |->
                    CASE f = <<INFO, "Stronger Foot">> -> "R"
                      [] f = <<POSITION, "CF">> -> "B"
                      [] f = <<POSITION, "RWF">> -> "none"
                      [] f = <<POSITION, "GK">> -> "A"],
      combo |-> [l \in {"Country/Region", "Playing Style"} |->
                    [open |-> (l = "Country/Region" /\ open), selected |-> "none"]]] :
     heading \in BOOLEAN, open \in BOOLEAN}

\* the records that differ in what a run has to wait for
FlowRecords ==
    {r \in Records : /\ "Age" \in DOMAIN r.basic
                     /\ r.appearance = [k \in {"Height"} |-> StrVal("169 cm")]
                     /\ r.skills = TrueMap({})
                     /\ r.comPlayingStyles = TrueMap({})}

SyncStart(records) ==
    /\ clip \in records
    /\ tree \in Trees
    /\ ui \in InitialUis
    /\ pc = "idle"
    /\ runs = 0
    /\ cb = NoCb
    /\ sel = NoSel
    /\ bulk = <<>>
    /\ ptodo = <<>>
    /\ scans = 0
    /\ snap = [taken |-> FALSE, ui |-> ui]
    /\ log = {}
    /\ start = ui
    /\ alerts = 0
    /\ parsed = FALSE
    /\ order = <<>>

SyncInit == SyncStart(Records)

SyncInitFlow == SyncStart(FlowRecords)

(***************************************************************************)
(* setPlayerData, piece by piece.                                          *)
(***************************************************************************)
\* btn.onclick = setPlayerData: up to await navigator.clipboard.readText()
ClickPaste ==
    /\ pc \in {"idle", "done", "failed"}
    /\ runs < MaxRuns
    /\ pc' = "read"
    /\ runs' = runs + 1
    /\ log' = {}
    /\ start' = ui
    /\ parsed' = FALSE
    /\ order' = <<>>
    /\ UNCHANGED <<pvars, tvars, gvars, nvars, dvars, cvars, avars, clip, tree, ui, cb, sel,
                   bulk, ptodo, scans, snap, alerts>>

\* a faulty variant that goes on to the passes: C14_ClipboardFailure tells
\* it apart
ReadFails_GoesOn ==
    /\ pc = "read"
    /\ pc' = "position"
    /\ alerts' = alerts + 1
    /\ UNCHANGED <<pvars, tvars, gvars, nvars, dvars, cvars, avars, order, clip, tree, ui, runs,
                   cb, sel, bulk, ptodo, scans, snap, log, start, parsed>>

\* the clipboard cannot be read: console.error, alert and return
ReadFails ==
    /\ pc = "read"
    /\ pc' = "failed"
    /\ alerts' = alerts + 1
    /\ UNCHANGED <<pvars, tvars, gvars, nvars, dvars, cvars, avars, order, clip, tree, ui, runs,
                   cb, sel, bulk, ptodo, scans, snap, log, start, parsed>>

\* the four text inputs fillInfo starts with: label and key of the record
InfoFirstFields ==
    <<[label |-> "Player Name", key |-> "Name"],
      [label |-> "Shirt name (club)", key |-> "Shirt Name"],
      [label |-> "Shirt name (national team)", key |-> "Shirt Name"],
      [label |-> "Age", key |-> "Age"]>>

\* fillInfo from its start to the await of the Stronger Foot selection
RECURSIVE InfoFirstInputs(_, _, _)
InfoFirstInputs(u, root, n) ==
    IF n = 0 THEN u
    ELSE setInputByElementText(InfoFirstInputs(u, root, n - 1), root,
                               InfoFirstFields[n].label,
                               Prop(clip.basic, InfoFirstFields[n].key))

\* the fields among them whose setter returned false
InfoFirstReports(u, lg, root) ==
    lg \cup {<<root, InfoFirstFields[n].label>> :
                n \in {m \in 1..Len(InfoFirstFields) :
                          ~setInputReturns(u, root, InfoFirstFields[m].label,
                                           Prop(clip.basic, InfoFirstFields[m].key))}}

\* the text is read and parsed, and fillInfo runs to its first await
ReadOk ==
    /\ pc = "read"
    /\ LET root == getContentByDivTitle(INFO)
       IN  IF root = NotFound
           THEN /\ pc' = "position"
                /\ log' = Reported(log, FALSE, INFO, NotFound)
                /\ UNCHANGED <<avars, ui, sel>>
           ELSE BeginSelect(InfoFirstInputs(ui, root, Len(InfoFirstFields)),
                            InfoFirstReports(ui, log, root), root,
                            StrVal("Stronger Foot"), Prop(clip.basic, "Foot"), "info2")
    /\ parsed' = TRUE
    /\ order' = Append(order, "fillInfo")
    /\ UNCHANGED <<pvars, tvars, gvars, nvars, dvars, cvars, avars, clip, tree, runs, cb, bulk,
                   ptodo, scans, snap, start, alerts>>

\* setSelectByElementText after its first tick: done when the click checked
\* the option, else the setter and one more tick
SelectTick ==
    /\ pc = "selTick"
    /\ IF RadioChecked(ui, sel.key, sel.value)
       THEN /\ pc' = sel.next
            /\ ui' = ui
       ELSE /\ pc' = "selTick2"
            /\ ui' = setReactSelect(ui, sel.key, sel.value)
    /\ UNCHANGED <<pvars, tvars, gvars, nvars, dvars, cvars, avars, order, clip, tree, runs, cb,
                   sel, bulk, ptodo, scans, snap, log, start, alerts, parsed>>

\* a faulty variant that goes back to test the option once more:
\* C21_RunCompletes tells it apart
SelectReturns_Retry == "selTick"

\* return true; after the second tick
SelectReturns == sel.next

SelectTick2 ==
    /\ pc = "selTick2"
    /\ pc' = SelectReturns
    /\ UNCHANGED <<pvars, tvars, gvars, nvars, dvars, cvars, avars, order, clip, tree, ui, runs,
                   cb, sel, bulk, ptodo, scans, snap, log, start, alerts, parsed>>

\* fillInfo: Reputation, then the Country/Region combobox up to its wait
InfoCountry ==
    /\ pc = "info2"
    /\ LET value == Prop(clip.basic, "Reputation")
       IN  BeginCombobox(setInputByElementText(ui, INFO, "Reputation", value),
                         Reported(log, setInputReturns(ui, INFO, "Reputation", value),
                                  INFO, "Reputation"),
                         INFO, "Country/Region", Prop(clip.basic, "Nationality"),
                         "- Others", FALSE, "info3")
    /\ UNCHANGED <<pvars, tvars, gvars, nvars, dvars, cvars, avars, order, clip, tree, runs,
                   sel, bulk, ptodo, snap, start, alerts, parsed>>

\* setComboboxByElementText after wait(60): the scan of the rendered buttons
ComboScan ==
    /\ pc = "comboWait"
    /\ scans' = scans + 1
    /\ IF OptionFound(ui, cb)
       THEN /\ ui' = ClickFound(ui, cb)
            /\ cb' = [cb EXCEPT !.result = "true"]
            /\ pc' = cb.next
            /\ log' = log
       ELSE IF IsFallbackItself(cb.option, cb.fallback)
       THEN /\ ui' = ui
            /\ cb' = [cb EXCEPT !.result = "false"]
            /\ pc' = cb.next
            /\ log' = Reported(log, FALSE, cb.root, cb.label)
       ELSE /\ ui' = ClickTrigger(ui, cb.label)
            /\ cb' = cb
            /\ pc' = "comboClose"
            /\ log' = log
    /\ UNCHANGED <<pvars, tvars, gvars, nvars, dvars, cvars, avars, order, clip, tree, runs,
                   sel, bulk, ptodo, snap, start, alerts, parsed>>

\* the recursive call with the fallback option, up to its wait(60)
ComboRetry ==
    /\ pc = "comboClose"
    /\ ui' = ClickTrigger(ui, cb.label)
    /\ cb' = [cb EXCEPT !.option = StrVal(cb.fallback), !.depth = @ + 1]
    /\ pc' = "comboWait"
    /\ UNCHANGED <<pvars, tvars, gvars, nvars, dvars, cvars, avars, order, clip, tree, runs,
                   sel, bulk, ptodo, scans, snap, log, start, alerts, parsed>>

\* fillInfo: Height, Weight, then the Playing Style combobox up to its wait
InfoStyle ==
    /\ pc = "info3"
    /\ LET height == ParseInt(Prop(clip.appearance, "Height"))
           weight == ParseInt(Prop(clip.appearance, "Weight"))
           u1 == setInputByElementText(ui, INFO, "Height (cm)", height)
           u2 == setInputByElementText(u1, INFO, "Weight (kg)", weight)
           l1 == Reported(log, setInputReturns(ui, INFO, "Height (cm)", height),
                          INFO, "Height (cm)")
           l2 == Reported(l1, setInputReturns(u1, INFO, "Weight (kg)", weight),
                          INFO, "Weight (kg)")
       IN  BeginCombobox(u2, l2, INFO, "Playing Style", clip.playingStyle, "N/A", TRUE,
                         "position")
    /\ UNCHANGED <<pvars, tvars, gvars, nvars, dvars, cvars, avars, order, clip, tree, runs,
                   sel, bulk, ptodo, snap, start, alerts, parsed>>

\* radio.click() of setAllRadiosToValue: the page checks C or ignores it
BulkClick(u, group) ==
    \E accepted \in BOOLEAN :
        ui' = IF accepted THEN setReactSelect(u, <<POSITION, group>>, "C") ELSE u

\* fillPosition from its start to the first await of setAllRadiosToValue
\* a faulty variant of setPlayerData that does not await fillInfo:
\* C18_PassOrdering tells it apart
PositionMayStart_Unawaited == pc = "position" \/ (pc = "selTick" /\ sel.next = "info2")

\* await fillInfo(player) has returned
PositionMayStart == pc = "position"

PositionStart ==
    /\ PositionMayStart
    /\ LET root == getContentByDivTitle(POSITION)
           value == Prop(clip.basic, "Registered Position")
       IN  IF root = NotFound
           THEN /\ pc' = "tail"
                /\ log' = Reported(log, FALSE, POSITION, NotFound)
                /\ UNCHANGED <<avars, ui, bulk>>
           ELSE /\ BulkClick(setInputByElementText(ui, root, "Registered Position", value),
                             Head(PositionGroups))
                /\ log' = Reported(log,
                                   setInputReturns(ui, root, "Registered Position", value),
                                   root, "Registered Position")
                /\ bulk' = PositionGroups
                /\ pc' = "bulkTick"
    /\ ptodo' = clip.positions
    /\ order' = Append(order, "fillPosition")
    /\ UNCHANGED <<pvars, tvars, gvars, nvars, dvars, cvars, avars, clip, tree, runs, cb, sel,
                   scans, snap, start, alerts, parsed>>

\* a faulty variant that leaves the loop after its first radio:
\* C11_PositionFinal tells it apart
BulkContinue_Stop(u) ==
    /\ ui' = u
    /\ bulk' = <<>>
    /\ pc' = "posReg"

\* the loop of setAllRadiosToValue goes on to its next radio with value C
BulkContinue(u) ==
    IF Len(bulk) > 1
    THEN /\ BulkClick(u, bulk[2])
         /\ bulk' = Tail(bulk)
         /\ pc' = "bulkTick"
    ELSE /\ ui' = u
         /\ bulk' = <<>>
         /\ pc' = "posReg"

BulkTick ==
    /\ pc = "bulkTick"
    /\ IF RadioChecked(ui, <<POSITION, Head(bulk)>>, "C")
       THEN BulkContinue(ui)
       ELSE /\ ui' = setReactSelect(ui, <<POSITION, Head(bulk)>>, "C")
            /\ bulk' = bulk
            /\ pc' = "bulkTick2"
    /\ UNCHANGED <<pvars, tvars, gvars, nvars, dvars, cvars, avars, order, clip, tree, runs, cb,
                   sel, ptodo, scans, snap, log, start, alerts, parsed>>

BulkTick2 ==
    /\ pc = "bulkTick2"
    /\ BulkContinue(ui)
    /\ UNCHANGED <<pvars, tvars, gvars, nvars, dvars, cvars, avars, order, clip, tree, runs, cb,
                   sel, ptodo, scans, snap, log, start, alerts, parsed>>

\* fillPosition: the registered position gets tier A
PositionRegistered ==
    /\ pc = "posReg"
    /\ BeginSelect(ui, log, POSITION, Prop(clip.basic, "Registered Position"),
                   StrVal("A"), "posLoop")
    /\ UNCHANGED <<pvars, tvars, gvars, nvars, dvars, cvars, avars, order, clip, tree, runs, cb,
                   bulk, ptodo, scans, snap, start, alerts, parsed>>

\* fillPosition: for (const k in player.positions)
PositionLoop ==
    /\ pc = "posLoop"
    /\ ptodo # <<>>
    /\ BeginSelect(ui, log, POSITION, StrVal(Head(ptodo).code), StrVal(Head(ptodo).tier),
                   "posLoop")
    /\ ptodo' = Tail(ptodo)
    /\ UNCHANGED <<pvars, tvars, gvars, nvars, dvars, cvars, avars, order, clip, tree, runs, cb,
                   bulk, scans, snap, start, alerts, parsed>>

PositionDone ==
    /\ pc = "posLoop"
    /\ ptodo = <<>>
    /\ pc' = "tail"
    /\ UNCHANGED <<pvars, tvars, gvars, nvars, dvars, cvars, avars, order, clip, tree, ui, runs,
                   cb, sel, bulk, ptodo, scans, snap, log, start, alerts, parsed>>

\* the calls of setPlayerData after its two awaited passes
TailCalls == <<"fillAbility", "fillPlayerSkills", "fillCOMPlayingstyles">>

\* fillAbility, fillPlayerSkills and fillCOMPlayingstyles have no await
TailPasses(u) ==
    fillCOMPlayingstyles(fillPlayerSkills(fillAbility(u, clip.stats), clip.skills),
                         clip.comPlayingStyles)

\* what the three report: a missing region, or the keys whose setter
\* returned false
TailReports(u, lg) ==
    lg \cup {<<r, NotFound>> : r \in {ABILITY, SKILLS, COMSTYLES} \ tree.regions}
       \cup (IF ABILITY \in tree.regions
             THEN {<<ABILITY, k>> : k \in {j \in DOMAIN clip.stats :
                       ~setInputReturns(u, ABILITY, j, clip.stats[j])}}
             ELSE {})
       \cup (IF SKILLS \in tree.regions
             THEN {<<SKILLS, k>> : k \in {j \in DOMAIN clip.skills :
                       ~setCheckboxReturns(u, SKILLS, j, clip.skills[j])}}
             ELSE {})
       \cup (IF COMSTYLES \in tree.regions
             THEN {<<COMSTYLES, k>> : k \in {j \in DOMAIN clip.comPlayingStyles :
                       ~setCheckboxReturns(u, COMSTYLES, j, clip.comPlayingStyles[j])}}
             ELSE {})

FillRest ==
    /\ pc = "tail"
    /\ ui' = TailPasses(ui)
    /\ log' = TailReports(ui, log)
    /\ pc' = "done"
    /\ snap' = IF snap.taken THEN snap ELSE [taken |-> TRUE, ui |-> ui']
    /\ order' = order \o TailCalls
    /\ UNCHANGED <<pvars, tvars, gvars, nvars, dvars, cvars, avars, clip, tree, runs, cb, sel,
                   bulk, ptodo, scans, start, alerts, parsed>>

Next ==
    \/ ClickPaste
    \/ ReadFails
    \/ ReadOk
    \/ SelectTick
    \/ SelectTick2
    \/ InfoCountry
    \/ ComboScan
    \/ ComboRetry
    \/ InfoStyle
    \/ PositionStart
    \/ BulkTick
    \/ BulkTick2
    \/ PositionRegistered
    \/ PositionLoop
    \/ PositionDone
    \/ FillRest

(***************************************************************************)
(* Part 3: the Paste Stats button and the observer of the document.        *)
(*                                                                         *)
(* tabs holds the page's buttons in document order, each with its trimmed  *)
(* text and whether its class name includes "_active_"; btn counts the     *)
(* elements with the id paste-stats-btn.  The page changes its buttons at  *)
(* will; every change of the document, the script's own included, queues   *)
(* a callback of the observer (pending).  fresh holds from the end of a    *)
(* run of checkPlayersTab until the page changes again.                    *)
(***************************************************************************)
\* how many buttons the page shows at most
MaxTabs == 3

TabTexts == {"Players", "Teams"}

TabButtons == [text : TabTexts, active : BOOLEAN]

\* tabs.find(b => (b.textContent || "").trim() === "Players")
RECURSIVE FindPlayers(_, _)
FindPlayers(bs, i) ==
    IF i > Len(bs) THEN 0
    ELSE IF bs[i].text = "Players" THEN i
    ELSE FindPlayers(bs, i + 1)

\* the number of paste buttons after showButton
showButton(n) == IF n > 0 THEN n ELSE n + 1

\* the number of paste buttons after hideButton
hideButton(n) == IF n > 0 THEN n - 1 ELSE n

\* the number of paste buttons after checkPlayersTab
checkPlayersTab(bs, n) ==
    LET playersTab == FindPlayers(bs, 1)
    IN  IF playersTab # 0 /\ bs[playersTab].active THEN showButton(n) ELSE hideButton(n)

TabInit ==
    /\ tabs \in UNION {[1..n -> TabButtons] : n \in 0..1}
    /\ btn = 0
    /\ pending = FALSE
    /\ fresh = FALSE
    /\ tpc = "load"

\* the script is loaded: the observer is installed, checkPlayersTab() runs
Load ==
    /\ tpc = "load"
    /\ btn' = checkPlayersTab(tabs, btn)
    /\ pending' = (btn' # btn)
    /\ fresh' = TRUE
    /\ tpc' = "observing"
    /\ UNCHANGED <<pvars, svars, gvars, nvars, dvars, cvars, avars, tabs>>

\* the page renders one more button
HostAdds ==
    /\ Len(tabs) < MaxTabs
    /\ \E b \in TabButtons, i \in 0..Len(tabs) :
          tabs' = SubSeq(tabs, 1, i) \o <<b>> \o SubSeq(tabs, i + 1, Len(tabs))
    /\ pending' = (tpc = "observing")
    /\ fresh' = FALSE
    /\ UNCHANGED <<pvars, svars, gvars, nvars, dvars, cvars, avars, btn, tpc>>

\* the page removes a button
HostRemoves ==
    /\ \E i \in 1..Len(tabs) :
          tabs' = SubSeq(tabs, 1, i - 1) \o SubSeq(tabs, i + 1, Len(tabs))
    /\ pending' = (tpc = "observing")
    /\ fresh' = FALSE
    /\ UNCHANGED <<pvars, svars, gvars, nvars, dvars, cvars, avars, btn, tpc>>

\* the page changes the class of a button
HostToggles ==
    /\ \E i \in 1..Len(tabs) : tabs' = [tabs EXCEPT ![i].active = ~@]
    /\ pending' = (tpc = "observing")
    /\ fresh' = FALSE
    /\ UNCHANGED <<pvars, svars, gvars, nvars, dvars, cvars, avars, btn, tpc>>

\* new MutationObserver(() => checkPlayersTab()): the queued callback runs
ObserverCallback ==
    /\ tpc = "observing"
    /\ pending
    /\ btn' = checkPlayersTab(tabs, btn)
    /\ pending' = (btn' # btn)
    /\ fresh' = TRUE
    /\ UNCHANGED <<pvars, svars, gvars, nvars, dvars, cvars, avars, tabs, tpc>>

TabNext ==
    \/ Load
    \/ HostAdds
    \/ HostRemoves
    \/ HostToggles
    \/ ObserverCallback

\* the state of the button while the other parts are looked at
TabIdle ==
    /\ tabs = <<>>
    /\ btn = 0
    /\ pending = FALSE
    /\ fresh = FALSE
    /\ tpc = "off"

(***************************************************************************)
(* Part 4: getElementByText over a small tree.                             *)
(*                                                                         *)
(* A node is a text node (tag "#text", its data in s) or an element with   *)
(* its child nodes in order.  groot is the list of child nodes of the      *)
(* region searched, needle the text looked for, scan the position of the   *)
(* loop over querySelectorAll("label, div"), found the value returned; an  *)
(* element is named by the path of child indices that leads to it.         *)
(***************************************************************************)
\* how many child nodes an element of the region has at most
MaxKids == 2

TextData == {"Age", " Age ", "age", " "}

\* t.trim(), for the texts of TextData
TrimText(s) ==
    CASE s = " Age " -> "Age"
      [] s = " " -> ""
      [] OTHER -> s

TextNode(s) == [tag |-> "#text", s |-> s, kids |-> <<>>]

Element(tag, kids) == [tag |-> tag, s |-> "", kids |-> kids]

SeqsUpTo(S, n) == UNION {[1..m -> S] : m \in 0..n}

\* elements that hold at most one text node
InnerElements ==
    {Element(tag, kids) : tag \in {"div", "label", "span"},
                          kids \in SeqsUpTo({TextNode(s) : s \in TextData}, 1)}

\* elements that hold text nodes and inner elements
OuterElements ==
    {Element(tag, kids) : tag \in {"div", "span"},
                          kids \in SeqsUpTo({TextNode(s) : s \in TextData} \cup InnerElements,
                                            MaxKids)}

\* n.textContent; an element met as a child holds at most one text node
textContent(n) ==
    IF n.tag = "#text" THEN n.s
    ELSE IF n.kids = <<>> THEN ""
    ELSE n.kids[1].s

\* the loop of getText over el.childNodes, from child i on
RECURSIVE getTextFrom(_, _, _)
getTextFrom(kids, i, includeChildren) ==
    IF i > Len(kids) THEN ""
    ELSE LET n == kids[i]
             t == TrimText(textContent(n))
         IN  IF n.tag = "#text" /\ t # "" THEN t
             ELSE IF includeChildren /\ n.tag # "#text" /\ t # "" THEN t
             ELSE getTextFrom(kids, i + 1, includeChildren)

getText(el, includeChildren) == getTextFrom(el.kids, 1, includeChildren)

\* the element at a path below the region
ElementAt(kids, path) ==
    IF Len(path) = 1 THEN kids[path[1]] ELSE kids[path[1]].kids[path[2]]

Selected(n) == n.tag \in {"label", "div"}

\* the paths of the child elements of the element at path p that the
\* selector matches, from child j on
RECURSIVE InnerMatches(_, _, _)
InnerMatches(el, p, j) ==
    IF j > Len(el.kids) THEN <<>>
    ELSE (IF Selected(el.kids[j]) THEN <<Append(p, j)>> ELSE <<>>)
             \o InnerMatches(el, p, j + 1)

\* root.querySelectorAll("label, div"): the paths in document order
RECURSIVE Matches(_, _)
Matches(kids, i) ==
    IF i > Len(kids) THEN <<>>
    ELSE (IF Selected(kids[i]) THEN <<<<i>>>> ELSE <<>>)
             \o InnerMatches(kids[i], <<i>>, 1)
             \o Matches(kids, i + 1)

Null == <<>>

GetInit ==
    /\ groot \in SeqsUpTo(OuterElements, 1)
    /\ needle \in {"Age"}
    /\ scan = 1
    /\ found = [returned |-> FALSE, el |-> Null]

Scanning == ~found.returned /\ scan <= Len(Matches(groot, 1))

\* if (getText(el, true) === text) return el;
ScanMatch ==
    /\ Scanning
    /\ getText(ElementAt(groot, Matches(groot, 1)[scan]), TRUE) = needle
    /\ found' = [returned |-> TRUE, el |-> Matches(groot, 1)[scan]]
    /\ UNCHANGED <<pvars, svars, tvars, nvars, dvars, cvars, avars, groot, needle, scan>>

\* the loop goes on to the next element
ScanNext ==
    /\ Scanning
    /\ getText(ElementAt(groot, Matches(groot, 1)[scan]), TRUE) # needle
    /\ scan' = scan + 1
    /\ UNCHANGED <<pvars, svars, tvars, nvars, dvars, cvars, avars, groot, needle, found>>

\* return null;
ScanEnd ==
    /\ ~found.returned
    /\ scan > Len(Matches(groot, 1))
    /\ found' = [returned |-> TRUE, el |-> Null]
    /\ UNCHANGED <<pvars, svars, tvars, nvars, dvars, cvars, avars, groot, needle, scan>>

GetNext ==
    \/ ScanMatch
    \/ ScanNext
    \/ ScanEnd

\* the state of the search while the other parts are looked at
GetIdle ==
    /\ groot = <<>>
    /\ needle = "Age"
    /\ scan = 0
    /\ found = [returned |-> TRUE, el |-> Null]

(***************************************************************************)
(* Part 5: setAllRadiosToValue on a page that replaces its nodes.          *)
(*                                                                         *)
(* Every group of the region has one radio with the value C.  The page may *)
(* replace that radio by a new node while the loop is suspended: gen is    *)
(* the generation of the node that is in the tree, checked tells for every *)
(* node ever made whether it is checked.  radios is the list the loop got  *)
(* from querySelectorAll, a list of nodes, each a pair of group and        *)
(* generation; ri is the index of the loop, bpc its position.  detached    *)
(* collects the nodes the loop has read or written while they were no      *)
(* longer in the tree.                                                     *)
(***************************************************************************)
\* how many groups the region has at most
MaxGroups == 2

\* how often the page replaces the radio of a group at most
MaxGen == 2

NodesOf(n) == (1..n) \X (0..MaxGen)

InTree(node) == gen[node[1]] = node[2]

\* root.querySelectorAll('input[type="radio"]'), the ones with value C
RECURSIVE QueryRadios(_, _)
QueryRadios(g, n) == IF n = 0 THEN <<>> ELSE Append(QueryRadios(g, n - 1), <<n, g[n]>>)

BulkInit ==
    /\ \E n \in 1..MaxGroups :
          /\ gen = [g \in 1..n |-> 0]
          /\ checked \in [NodesOf(n) -> BOOLEAN]
          /\ \A node \in NodesOf(n) : node[2] # 0 => ~checked[node]
    /\ radios = <<>>
    /\ ri = 0
    /\ bpc = "call"
    /\ detached = {}

\* try { radio.click(); } catch(_) {}: the node gets checked, or, if the
\* page handles the click of a node in the tree otherwise, stays as it was
RadioClick(node) ==
    \E accepted \in BOOLEAN :
        checked' = IF accepted \/ ~InTree(node) THEN [checked EXCEPT ![node] = TRUE]
                   ELSE checked

\* setAllRadiosToValue from its call to its first await
BulkCall ==
    /\ bpc = "call"
    /\ radios' = QueryRadios(gen, Len(gen))
    /\ ri' = 1
    /\ RadioClick(radios'[1])
    /\ bpc' = "tick"
    /\ UNCHANGED <<pvars, svars, tvars, gvars, dvars, cvars, avars, gen, detached>>

\* the page renders the radio of a group anew while the loop is suspended;
\* the new node shows what the old one showed
HostReplaces ==
    /\ bpc \in {"tick", "tick2"}
    /\ \E g \in DOMAIN gen :
          /\ gen[g] < MaxGen
          /\ gen' = [gen EXCEPT ![g] = @ + 1]
          /\ checked' = [checked EXCEPT ![<<g, gen[g] + 1>>] = checked[<<g, gen[g]>>]]
    /\ UNCHANGED <<pvars, svars, tvars, gvars, dvars, cvars, avars, radios, ri, bpc, detached>>

\* the loop goes on: the next radio of the list is clicked, or the loop ends
NextRadio(seen) ==
    IF ri < Len(radios)
    THEN /\ ri' = ri + 1
         /\ RadioClick(radios[ri + 1])
         /\ detached' = seen \cup (IF InTree(radios[ri + 1]) THEN {} ELSE {radios[ri + 1]})
         /\ bpc' = "tick"
    ELSE /\ ri' = ri
         /\ checked' = checked
         /\ detached' = seen
         /\ bpc' = "return"

\* after the first tick: if (radio.checked) continue; setReactSelect(radio)
BulkAfterClick ==
    /\ bpc = "tick"
    /\ LET radio == radios[ri]
           seen == IF InTree(radio) THEN detached ELSE detached \cup {radio}
       IN  IF checked[radio]
           THEN NextRadio(seen)
           ELSE /\ checked' = [checked EXCEPT ![radio] = TRUE]
                /\ detached' = seen
                /\ ri' = ri
                /\ bpc' = "tick2"
    /\ UNCHANGED <<pvars, svars, tvars, gvars, dvars, cvars, avars, gen, radios>>

\* after the second tick the loop goes on
BulkAfterSetter ==
    /\ bpc = "tick2"
    /\ NextRadio(detached)
    /\ UNCHANGED <<pvars, svars, tvars, gvars, dvars, cvars, avars, gen, radios>>

BulkNext ==
    \/ BulkCall
    \/ HostReplaces
    \/ BulkAfterClick
    \/ BulkAfterSetter

\* the state of the loop while the other parts are looked at
BulkIdle ==
    /\ gen = <<>>
    /\ checked = <<>>
    /\ radios = <<>>
    /\ ri = 0
    /\ bpc = "off"
    /\ detached = {}

(***************************************************************************)
(* Part 6: getContentByDivTitle over a small document.                     *)
(*                                                                         *)
(* doc is the list of the elements below the body; an element has a tag,   *)
(* the words of its own text, an input of its own or none, and child       *)
(* elements that have no children themselves.  An element is named by the  *)
(* path of child indices that leads to it.  dpc tells whether the function *)
(* has been called, contentDiv is what it returned.                        *)
(***************************************************************************)
\* how many elements the body holds at most
MaxBlocks == 2

Words == {<<>>, <<"Info">>, <<"info">>}

Leaves == [tag : {"div", "span"}, words : Words, input : BOOLEAN, kids : {<<>>}]

Wrappers ==
    [tag : {"div"}, words : {<<>>}, input : {FALSE},
     kids : UNION {[1..n -> Leaves] : n \in 1..MaxKids}]

Documents == UNION {[1..n -> Leaves \cup Wrappers] : n \in 0..MaxBlocks}

\* the words of the texts of the elements kids[i], kids[i + 1], ... in a row
RECURSIVE WordsFrom(_, _)
WordsFrom(kids, i) == IF i > Len(kids) THEN <<>> ELSE kids[i].words \o WordsFrom(kids, i + 1)

\* (d.textContent || "").trim(), as words
TrimmedTextContent(e) == e.words \o WordsFrom(e.kids, 1)

\* a faulty variant that takes every following element for a region:
\* C23_ContentRegion tells it apart
HoldsInput_Always(e) == TRUE

\* contentDiv.querySelector("input") finds something
HoldsInput(e) == e.input \/ \E j \in 1..Len(e.kids) : e.kids[j].input

ElementIn(d, path) == IF Len(path) = 1 THEN d[path[1]] ELSE d[path[1]].kids[path[2]]

\* the paths of the div elements among the children of d[i], from j on
RECURSIVE InnerDivs(_, _, _)
InnerDivs(d, i, j) ==
    IF j > Len(d[i].kids) THEN <<>>
    ELSE (IF d[i].kids[j].tag = "div" THEN <<<<i, j>>>> ELSE <<>>) \o InnerDivs(d, i, j + 1)

\* document.querySelectorAll("div"): the paths in document order
RECURSIVE AllDivs(_, _)
AllDivs(d, i) ==
    IF i > Len(d) THEN <<>>
    ELSE (IF d[i].tag = "div" THEN <<<<i>>>> ELSE <<>>)
             \o InnerDivs(d, i, 1) \o AllDivs(d, i + 1)

\* allDivs.find(d => (d.textContent || "").trim() === title), or Null
RECURSIVE FindTitle(_, _, _, _)
FindTitle(d, divs, n, title) ==
    IF n > Len(divs) THEN Null
    ELSE IF TrimmedTextContent(ElementIn(d, divs[n])) = title THEN divs[n]
    ELSE FindTitle(d, divs, n + 1, title)

\* titleDiv.nextElementSibling, or Null
NextElementSibling(d, path) ==
    LET last == path[Len(path)]
        siblings == IF Len(path) = 1 THEN Len(d) ELSE Len(d[path[1]].kids)
    IN  IF last < siblings THEN [path EXCEPT ![Len(path)] = last + 1] ELSE Null

getContentByDivTitleIn(d, title) ==
    LET titleDiv == FindTitle(d, AllDivs(d, 1), 1, title)
    IN  IF titleDiv = Null THEN Null
        ELSE LET content == NextElementSibling(d, titleDiv)
             IN  IF content # Null /\ HoldsInput(ElementIn(d, content)) THEN content
                 ELSE Null

TitleInit ==
    /\ doc \in Documents
    /\ dpc = "call"
    /\ contentDiv = Null

\* getContentByDivTitle("Info") is called and returns
TitleCall ==
    /\ dpc = "call"
    /\ contentDiv' = getContentByDivTitleIn(doc, <<"Info">>)
    /\ dpc' = "returned"
    /\ UNCHANGED <<pvars, svars, tvars, gvars, nvars, cvars, avars, doc>>

TitleNext ==
    \/ TitleCall

\* the state of the call while the other parts are looked at
TitleIdle ==
    /\ doc = <<>>
    /\ dpc = "off"
    /\ contentDiv = Null

(***************************************************************************)
(* Part 7: clicks on Paste Stats while a run is suspended.                 *)
(*                                                                         *)
(* Every click calls setPlayerData anew; the button stays as it is while a *)
(* run is under way.  Run r is at runpc[r]; record[r] is the player it     *)
(* parsed from the clipboard, which the user may fill with another player  *)
(* at any time.  form holds one control for each stretch of a run between  *)
(* two suspension points: Player Name is written before the first await of *)
(* fillInfo, Height (cm) after its awaits, Registered Position before the  *)
(* first await of fillPosition, Speed by fillAbility.                      *)
(***************************************************************************)
\* how many times the button is clicked at most
MaxClicks == 2

Players == {"A", "B"}

Clicks == 1..MaxClicks

FormControls == {"Player Name", "Height (cm)", "Registered Position", "Speed"}

TwoInit ==
    /\ runpc = [r \in Clicks |-> "idle"]
    /\ record = [r \in Clicks |-> "none"]
    /\ clipboard \in Players
    /\ form = [c \in FormControls |-> "old"]

\* btn.onclick = setPlayerData: the call up to the await of readText()
ClickAgain ==
    /\ \E r \in Clicks :
          /\ runpc[r] = "idle"
          /\ \A q \in 1..(r - 1) : runpc[q] # "idle"
          /\ runpc' = [runpc EXCEPT ![r] = "read"]
    /\ UNCHANGED <<pvars, svars, tvars, gvars, nvars, dvars, avars, record, clipboard, form>>

\* the user copies another player
UserCopies ==
    /\ \E p \in Players \ {clipboard} : clipboard' = p
    /\ UNCHANGED <<pvars, svars, tvars, gvars, nvars, dvars, avars, runpc, record, form>>

\* readText() answers: parsePlayerText, and fillInfo up to its first await
RunReads ==
    /\ \E r \in Clicks :
          /\ runpc[r] = "read"
          /\ record' = [record EXCEPT ![r] = clipboard]
          /\ form' = [form EXCEPT !["Player Name"] = clipboard]
          /\ runpc' = [runpc EXCEPT ![r] = "info"]
    /\ UNCHANGED <<pvars, svars, tvars, gvars, nvars, dvars, avars, clipboard>>

\* fillInfo after its awaits, up to its return
RunInfoResumes ==
    /\ \E r \in Clicks :
          /\ runpc[r] = "info"
          /\ form' = [form EXCEPT !["Height (cm)"] = record[r]]
          /\ runpc' = [runpc EXCEPT ![r] = "position"]
    /\ UNCHANGED <<pvars, svars, tvars, gvars, nvars, dvars, avars, record, clipboard>>

\* fillPosition up to its first await
RunPositionStarts ==
    /\ \E r \in Clicks :
          /\ runpc[r] = "position"
          /\ form' = [form EXCEPT !["Registered Position"] = record[r]]
          /\ runpc' = [runpc EXCEPT ![r] = "positionWait"]
    /\ UNCHANGED <<pvars, svars, tvars, gvars, nvars, dvars, avars, record, clipboard>>

\* fillPosition returns; fillAbility and the two passes after it
RunTail ==
    /\ \E r \in Clicks :
          /\ runpc[r] = "positionWait"
          /\ form' = [form EXCEPT !["Speed"] = record[r]]
          /\ runpc' = [runpc EXCEPT ![r] = "done"]
    /\ UNCHANGED <<pvars, svars, tvars, gvars, nvars, dvars, avars, record, clipboard>>

TwoNext ==
    \/ ClickAgain
    \/ UserCopies
    \/ RunReads
    \/ RunInfoResumes
    \/ RunPositionStarts
    \/ RunTail

\* the state of the runs while the other parts are looked at
TwoIdle ==
    /\ runpc = <<>>
    /\ record = <<>>
    /\ clipboard = "A"
    /\ form = <<>>

(***************************************************************************)
(* Part 8: setNationality of the earlier script (src/unnamed/part_000).    *)
(*                                                                         *)
(* natCountry is the country fillInfo asks for, natArg the country of the  *)
(* call under way, natOptions the texts of the option buttons the label    *)
(* renders.  A call that does not find its country calls setNationality    *)
(* again with "- Others"; each call suspends at its wait(60).  natCalls    *)
(* counts the calls and stops counting at MaxCalls.                        *)
(***************************************************************************)
\* the number of calls up to which natCalls counts
MaxCalls == 3

\* player.basic["Nationality"] of a record without that line
NoCountry == "<undefined>"

Countries == {"Chile", "Narnia", "- Others", NoCountry}

OptionTexts == {"Chile", "- Others"}

Bump(n) == IF n < MaxCalls THEN n + 1 ELSE MaxCalls

NatInit ==
    /\ natCountry \in Countries
    /\ natArg = natCountry
    /\ natOptions \in SUBSET OptionTexts
    /\ natLabel \in BOOLEAN
    /\ natTrigger \in BOOLEAN
    /\ natCalls = 0
    /\ natpc = "idle"
    /\ natResult = FALSE
    /\ natSelected = "old"

\* the part of a call before its wait(60): the label, its first button,
\* the click on it
EntersWait == natLabel /\ natTrigger

\* fillInfo calls setNationality(root, "Country/Region", country)
NatCall ==
    /\ natpc = "idle"
    /\ natCalls' = 1
    /\ IF EntersWait
       THEN natpc' = "wait" /\ natResult' = natResult
       ELSE natpc' = "returned" /\ natResult' = FALSE
    /\ UNCHANGED <<pvars, svars, tvars, gvars, nvars, dvars, cvars, natCountry, natArg,
                   natOptions, natLabel, natTrigger, natSelected>>

\* after wait(60) the scan finds the option: click, return true
NatFound ==
    /\ natpc = "wait"
    /\ natArg \in natOptions
    /\ natSelected' = natArg
    /\ natResult' = TRUE
    /\ natpc' = "returned"
    /\ UNCHANGED <<pvars, svars, tvars, gvars, nvars, dvars, cvars, natCountry, natArg,
                   natOptions, natLabel, natTrigger, natCalls>>

\* after wait(60) the scan finds nothing: the call made then finds the
\* label and the trigger again, clicks and waits
NatFallback ==
    /\ natpc = "wait"
    /\ natArg \notin natOptions
    /\ natArg' = "- Others"
    /\ natCalls' = Bump(natCalls)
    /\ UNCHANGED <<pvars, svars, tvars, gvars, nvars, dvars, cvars, natCountry, natOptions,
                   natLabel, natTrigger, natpc, natResult, natSelected>>

\* fillInfo goes on with Height (cm) once the call has returned
NatInfoGoesOn ==
    /\ natpc = "returned"
    /\ natpc' = "info"
    /\ UNCHANGED <<pvars, svars, tvars, gvars, nvars, dvars, cvars, natCountry, natArg,
                   natOptions, natLabel, natTrigger, natCalls, natResult, natSelected>>

NatNext ==
    \/ NatCall
    \/ NatFound
    \/ NatFallback
    \/ NatInfoGoesOn

\* the state of setNationality while the other parts are looked at
NatIdle ==
    /\ natCountry = "Chile"
    /\ natArg = "Chile"
    /\ natOptions = {}
    /\ natLabel = FALSE
    /\ natTrigger = FALSE
    /\ natCalls = 0
    /\ natpc = "off"
    /\ natResult = FALSE
    /\ natSelected = "old"

(***************************************************************************)
(* The specifications: each part on its own.                               *)
(***************************************************************************)
ParserIdle ==
    /\ text = <<>>
    /\ lines = <<>>
    /\ idx = 1
    /\ section = "basic"
    /\ player = EmptyPlayer
    /\ ppc = "idle"

SyncIdle ==
    /\ clip = CHOOSE r \in Records : TRUE
    /\ tree = CHOOSE t \in Trees : TRUE
    /\ ui = CHOOSE u \in InitialUis : TRUE
    /\ pc = "off"
    /\ runs = 0
    /\ cb = NoCb
    /\ sel = NoSel
    /\ bulk = <<>>
    /\ ptodo = <<>>
    /\ scans = 0
    /\ snap = [taken |-> FALSE, ui |-> ui]
    /\ log = {}
    /\ start = ui
    /\ alerts = 0
    /\ parsed = FALSE
    /\ order = <<>>

InitParse ==
    /\ ParseInit
    /\ SyncIdle
    /\ TabIdle
    /\ GetIdle
    /\ BulkIdle
    /\ TitleIdle
    /\ TwoIdle
    /\ NatIdle

SpecParse == InitParse /\ [][ParseNext]_vars

Init ==
    /\ ParserIdle
    /\ SyncInit
    /\ TabIdle
    /\ GetIdle
    /\ BulkIdle
    /\ TitleIdle
    /\ TwoIdle
    /\ NatIdle

InitTab ==
    /\ ParserIdle
    /\ SyncIdle
    /\ TabInit
    /\ GetIdle
    /\ BulkIdle
    /\ TitleIdle
    /\ TwoIdle
    /\ NatIdle

InitGet ==
    /\ ParserIdle
    /\ SyncIdle
    /\ TabIdle
    /\ GetInit
    /\ BulkIdle
    /\ TitleIdle
    /\ TwoIdle
    /\ NatIdle

SpecGet == InitGet /\ [][GetNext]_vars

InitBulk ==
    /\ ParserIdle
    /\ SyncIdle
    /\ TabIdle
    /\ GetIdle
    /\ BulkInit
    /\ TitleIdle
    /\ TwoIdle
    /\ NatIdle

SpecBulk == InitBulk /\ [][BulkNext]_vars

InitTitle ==
    /\ ParserIdle
    /\ SyncIdle
    /\ TabIdle
    /\ GetIdle
    /\ BulkIdle
    /\ TitleInit
    /\ TwoIdle
    /\ NatIdle

SpecTitle == InitTitle /\ [][TitleNext]_vars

InitTwo ==
    /\ ParserIdle
    /\ SyncIdle
    /\ TabIdle
    /\ GetIdle
    /\ BulkIdle
    /\ TitleIdle
    /\ TwoInit
    /\ NatIdle

SpecTwo == InitTwo /\ [][TwoNext]_vars

SpecTab == InitTab /\ [][TabNext]_vars

InitNat ==
    /\ ParserIdle
    /\ SyncIdle
    /\ TabIdle
    /\ GetIdle
    /\ BulkIdle
    /\ TitleIdle
    /\ TwoIdle
    /\ NatInit

\* setNationality when every timer of wait(60) fires in the end
SpecNat == InitNat /\ [][NatNext]_vars /\ WF_vars(NatNext)

Spec == Init /\ [][Next]_vars

\* what resumes a suspended run: the clipboard answers, a timer of wait(60)
\* fires, a tick of await Promise.resolve() or of a returned call comes
Resume ==
    \/ ReadFails
    \/ ReadOk
    \/ SelectTick
    \/ SelectTick2
    \/ InfoCountry
    \/ ComboScan
    \/ ComboRetry
    \/ InfoStyle
    \/ PositionStart
    \/ BulkTick
    \/ BulkTick2
    \/ PositionRegistered
    \/ PositionLoop
    \/ PositionDone
    \/ FillRest

InitFair ==
    /\ ParserIdle
    /\ SyncInitFlow
    /\ TabIdle
    /\ GetIdle
    /\ BulkIdle
    /\ TitleIdle
    /\ TwoIdle
    /\ NatIdle

\* the run when every timer and every tick fires in the end
FairSpec == InitFair /\ [][Next]_vars /\ WF_vars(Resume)

(***************************************************************************)
(* Properties of parsePlayerText.  The record is the one returned when     *)
(* ppc = "done"; lines are the trimmed non-blank lines of the text.        *)
(***************************************************************************)
Fields ==
    {"basic", "appearance", "stats", "skills", "comPlayingStyles", "positions",
     "playingStyle"}

MapFields == Fields \ {"playingStyle"}

Returned == ppc = "done"

HasColon(s) == \E i \in 1..Len(s) : s[i] = COLON

FirstColon(s) == CHOOSE i \in 1..Len(s) : s[i] = COLON /\ \A j \in 1..(i - 1) : s[j] # COLON

\* the label and the value of a line "K: V": the text before the first colon
\* and the whole text after it, both trimmed
LabelOf(s) == Trim(SubSeq(s, 1, FirstColon(s) - 1))

RestOf(s) == Trim(SubSeq(s, FirstColon(s) + 1, Len(s)))

Labelled(i) == HasColon(lines[i]) /\ LabelOf(lines[i]) # <<>>

\* the section a line belongs to: the one named by the most recent header
\* line above it, the default section when there is none
NamedSection(line) ==
    CASE Upper(line[1]) = "APPEARANCE" -> "appearance"
      [] Upper(line[1]) = "STATS" -> "stats"
      [] Upper(line[1]) = "CARD PLAYER SKILL" -> "skills"
      [] Upper(line[1]) = "CARD STYLE COM" -> "comPlayingStyles"
      [] Upper(line[1]) = "PLAYING STYLE" -> "playingStyle"

HeadersAbove(i) == {j \in 1..(i - 1) : j <= Len(lines) /\ IsHeaderLine(lines[j])}

Max(S) == CHOOSE x \in S : \A y \in S : y <= x

SectionAt(i) ==
    IF HeadersAbove(i) = {} THEN "basic" ELSE NamedSection(lines[Max(HeadersAbove(i))])

DataLineOf(i, sec) == ~IsHeaderLine(lines[i]) /\ SectionAt(i) = sec

\* line i is the last line of section sec that carries the label of line i
LastOfLabel(i, sec) ==
    ~\E j \in (i + 1)..Len(lines) :
        DataLineOf(j, sec) /\ Labelled(j) /\ LabelOf(lines[j]) = LabelOf(lines[i])

\* C1: every default-section line "K: V" with a non-empty label K other than
\* Positions gives basic[trim(K)] = trim(V), the last line of a repeated K
\* winning; Positions is never a key of basic, and a Positions line changes
\* no field but positions.
C1_BasicKeyValue ==
    [][/\ Returned' =>
            /\ \A i \in 1..Len(lines) :
                  (/\ DataLineOf(i, "basic") /\ Labelled(i)
                   /\ LabelOf(lines[i]) # <<"Positions">>
                   /\ LastOfLabel(i, "basic"))
                  => /\ LabelOf(lines[i]) \in DOMAIN player'.basic
                     /\ player'.basic[LabelOf(lines[i])] = RestOf(lines[i])
            /\ <<"Positions">> \notin DOMAIN player'.basic
       /\ (/\ InLoop /\ idx' = idx + 1 /\ DataLineOf(idx, "basic") /\ Labelled(idx)
           /\ LabelOf(lines[idx]) = <<"Positions">>)
          => \A f \in Fields \ {"positions"} : player'[f] = player[f]
      ]_vars

\* the entries of all default-section Positions lines, in order, trimmed,
\* without the empty ones
RECURSIVE TrimmedEntries(_)
TrimmedEntries(es) ==
    IF es = <<>> THEN <<>>
    ELSE IF Trim(Head(es)) = <<>> THEN TrimmedEntries(Tail(es))
    ELSE <<Trim(Head(es))>> \o TrimmedEntries(Tail(es))

RECURSIVE PositionEntriesUpTo(_)
PositionEntriesUpTo(i) ==
    IF i = 0 THEN <<>>
    ELSE PositionEntriesUpTo(i - 1) \o
         (IF DataLineOf(i, "basic") /\ Labelled(i) /\ LabelOf(lines[i]) = <<"Positions">>
          THEN TrimmedEntries(Split(RestOf(lines[i]), COMMA))
          ELSE <<>>)

EntryCode(e) == IF Head(e) = STAR THEN Tail(e) ELSE e

EntryTier(e) == IF Head(e) = STAR THEN "A" ELSE "B"

\* C2: positions holds exactly the codes of the comma-separated, trimmed,
\* non-empty entries of the Positions lines: tier A for an entry that starts
\* with the marker, tier B for any other (the last entry of a code deciding).
C2_PositionsTiers ==
    Returned =>
        LET es == PositionEntriesUpTo(Len(lines))
        IN  /\ DOMAIN player.positions = {EntryCode(es[n]) : n \in 1..Len(es)}
            /\ \A n \in 1..Len(es) :
                  (\A m \in (n + 1)..Len(es) : EntryCode(es[m]) # EntryCode(es[n]))
                  => player.positions[EntryCode(es[n])] = EntryTier(es[n])

\* a numeric literal: the whole string is a non-empty run of decimal digits
NumericLiteral(s) == s # <<>> /\ \A n \in 1..Len(s) : s[n] \in {"0", "5", "8"}

RECURSIVE LiteralValue(_)
LiteralValue(s) ==
    IF s = <<>> THEN 0
    ELSE 10 * LiteralValue(SubSeq(s, 1, Len(s) - 1))
         + (CASE s[Len(s)] = "5" -> 5 [] s[Len(s)] = "8" -> 8 [] OTHER -> 0)

\* C3: for a STATS line "K: V", stats[K] is a number exactly when the whole
\* trimmed V is a numeric literal, and is the trimmed string V otherwise
\* (the empty value of "K:" included).
C3_StatsCoercion ==
    Returned =>
        \A i \in 1..Len(lines) :
            (DataLineOf(i, "stats") /\ Labelled(i) /\ LastOfLabel(i, "stats"))
            => /\ LabelOf(lines[i]) \in DOMAIN player.stats
               /\ player.stats[LabelOf(lines[i])] =
                     IF NumericLiteral(RestOf(lines[i]))
                     THEN [t |-> "num", n |-> LiteralValue(RestOf(lines[i]))]
                     ELSE [t |-> "str", s |-> RestOf(lines[i])]

\* the names marked in section sec: the text after the marker, trimmed
MarkedNames(sec) ==
    {Trim(Tail(lines[i])) : i \in {j \in 1..Len(lines) :
                                      DataLineOf(j, sec) /\ Head(lines[j]) = STAR}}

\* C4: skills (resp. comPlayingStyles) holds exactly the marked names of the
\* CARD PLAYER SKILL (resp. CARD STYLE COM) section, each with value true.
C4_MarkedOnly ==
    Returned =>
        /\ DOMAIN player.skills = MarkedNames("skills")
        /\ DOMAIN player.comPlayingStyles = MarkedNames("comPlayingStyles")
        /\ \A k \in DOMAIN player.skills : player.skills[k] = TRUE
        /\ \A k \in DOMAIN player.comPlayingStyles : player.comPlayingStyles[k] = TRUE

\* a returned record with a marked skill, next to an unmarked line and a
\* marked line with spaces around the name
C4_Witness ==
    /\ Returned
    /\ player.skills # EmptyMap
    /\ \E i \in 1..Len(lines) : DataLineOf(i, "skills") /\ Head(lines[i]) # STAR
    /\ \E i \in 1..Len(lines) : DataLineOf(i, "skills") /\ Len(lines[i]) > 2

FieldsOfSection(sec) == IF sec = "basic" THEN {"basic", "positions"} ELSE {sec}

\* C5: the cursor is the section named by the most recent header above the
\* current line (basic when there is none); a data line is handled by that
\* section's rule and changes no field of another section; a header line
\* changes no field at all.
C5_SectionCursor ==
    [][/\ (section = SectionAt(idx))'
       /\ (InLoop /\ idx' = idx + 1) =>
             IF IsHeaderLine(lines[idx]) THEN player' = player
             ELSE /\ player' = Dispatch(SectionAt(idx), lines[idx], player)
                  /\ \A f \in Fields \ FieldsOfSection(SectionAt(idx)) :
                        player'[f] = player[f]
      ]_vars

\* a data line, a header, a data line: the first fills basic, the last stats
C5_Witness ==
    /\ Returned
    /\ Len(lines) = 3
    /\ ~IsHeaderLine(lines[1]) /\ IsHeaderLine(lines[2]) /\ ~IsHeaderLine(lines[3])
    /\ player.basic # EmptyMap
    /\ player.stats # EmptyMap

Malformed(i) == ~HasColon(lines[i]) \/ LabelOf(lines[i]) = <<>>

\* the loop can always take its next step
CanStep ==
    ppc = "loop" =>
        \/ idx > Len(lines)
        \/ IsHeaderLine(lines[idx])
        \/ section \in {"basic", "appearance", "stats", "skills", "comPlayingStyles",
                        "playingStyle"}

\* C6: no input raises an error, every step of the loop consumes one line,
\* the returned record has the seven fields, and a line of the basic,
\* appearance or stats section without a colon or with an empty label leaves
\* the whole record unchanged.
C6_Total ==
    [][/\ ppc' # "threw"
       /\ CanStep'
       /\ InLoop => (idx' = idx + 1 /\ ppc' = "loop")
       /\ Returned' => DOMAIN player' = Fields
       /\ (/\ InLoop /\ ~IsHeaderLine(lines[idx])
           /\ SectionAt(idx) \in {"basic", "appearance", "stats"}
           /\ Malformed(idx))
          => player' = player
      ]_vars

\* a returned record of a text with a basic line without a colon and a stats
\* line with an empty label
C6_Witness ==
    /\ Returned
    /\ \E i \in 1..Len(lines) : DataLineOf(i, "basic") /\ ~HasColon(lines[i])
    /\ \E i \in 1..Len(lines) : DataLineOf(i, "stats") /\ HasColon(lines[i]) /\ Malformed(i)

\* C7: every key of the six mappings of the returned record is non-empty and
\* has no leading or trailing whitespace.
C7_KeysTrimmed ==
    Returned =>
        \A f \in MapFields : \A k \in DOMAIN player[f] : k # <<>> /\ Trim(k) = k

\* the form in which section sec stores the text v
StoredAs(sec, v) == IF sec = "stats" THEN [t |-> "str", s |-> v] ELSE v

\* C16: a label/value line of the basic, appearance and stats sections is
\* split on its first colon only: the value stored under its label is the
\* whole trimmed text after the first colon, later colons included (in
\* stats a value without a later colon may be stored as a number).
C16_FirstColonOnly ==
    Returned =>
        \A sec \in {"basic", "appearance", "stats"} :
            \A i \in 1..Len(lines) :
                (/\ DataLineOf(i, sec) /\ Labelled(i) /\ LastOfLabel(i, sec)
                 /\ sec = "basic" => LabelOf(lines[i]) # <<"Positions">>)
                => /\ LabelOf(lines[i]) \in DOMAIN player[sec]
                   /\ \/ player[sec][LabelOf(lines[i])] = StoredAs(sec, RestOf(lines[i]))
                      \/ /\ sec = "stats"
                         /\ ~HasColon(RestOf(lines[i]))
                         /\ player.stats[LabelOf(lines[i])].t = "num"

\* an appearance line a:a:b has been read and only the text between its
\* first two colons is stored
C16_Witness ==
    /\ Returned
    /\ lines = <<<<"APPEARANCE", COLON>>, <<"a", COLON, "a", COLON, "b">>>>
    /\ player.appearance[<<"a">>] = <<"a">>

\* the part of C16 the code keeps: a line with one colon only
C16_SingleColon ==
    Returned =>
        \A sec \in {"basic", "appearance", "stats"} :
            \A i \in 1..Len(lines) :
                (/\ DataLineOf(i, sec) /\ Labelled(i) /\ LastOfLabel(i, sec)
                 /\ ~HasColon(RestOf(lines[i]))
                 /\ sec = "basic" => LabelOf(lines[i]) # <<"Positions">>)
                => /\ LabelOf(lines[i]) \in DOMAIN player[sec]
                   /\ \/ player[sec][LabelOf(lines[i])] = StoredAs(sec, RestOf(lines[i]))
                      \/ sec = "stats" /\ player.stats[LabelOf(lines[i])].t = "num"

\* the lines of a PLAYING STYLE section: those that are no header and
\* whose nearest header above is PLAYING STYLE:
StyleLines ==
    {i \in 1..Len(lines) :
        /\ ~IsHeaderLine(lines[i])
        /\ \E j \in 1..(i - 1) :
               /\ MatchesHeader(lines[j], "PLAYING STYLE")
               /\ \A k \in (j + 1)..(i - 1) : ~IsHeaderLine(lines[k])}

LastOf(S) == CHOOSE i \in S : \A j \in S : j <= i

\* C25: the returned playingStyle is the last line of the PLAYING STYLE
\* sections that is no header, whole and not appended to an earlier one, and
\* the empty string when the sections hold no such line.
C25_LastStyleLine ==
    ppc = "done" =>
        player.playingStyle = IF StyleLines = {} THEN <<>> ELSE lines[LastOf(StyleLines)]

\* a section of two different lines has been parsed and the second is kept
C25_Witness ==
    /\ ppc = "done"
    /\ \E i, j \in StyleLines : i < j /\ lines[i] # lines[j]
    /\ player.playingStyle = lines[LastOf(StyleLines)]

(***************************************************************************)
(* Properties of the synchronization run.                                  *)
(***************************************************************************)
InCombobox == pc \in {"comboWait", "comboClose"}

\* the requested option is not among the buttons the element renders
Absent == ~\E txt \in ButtonTexts(ui, cb.label, cb.anyText) : TextEquals(txt, cb.option)

\* C8: setComboboxByElementText: when the requested option is not rendered
\* and differs from the fallback, the call retries, once, with the fallback;
\* when the option is absent and is the fallback it returns false with no
\* further attempt; a found option returns true; a top-level call scans at
\* most twice, recurses at most once, and is never stuck before it returns.
C8_FallbackOnce ==
    /\ [](scans <= 2 /\ cb.depth <= 1)
    /\ [](InCombobox => ENABLED (ComboScan \/ ComboRetry))
    /\ [][/\ (pc = "comboWait" /\ Absent /\ ~TextEquals(cb.fallback, cb.option))
                => /\ cb.depth = 0
                   /\ pc' = "comboClose"
          /\ (pc = "comboWait" /\ Absent /\ TextEquals(cb.fallback, cb.option))
                => /\ cb'.result = "false"
                   /\ pc' = cb.next
                   /\ ui' = ui
          /\ (pc = "comboWait" /\ ~Absent)
                => /\ cb'.result = "true"
                   /\ pc' = cb.next
          /\ pc = "comboClose"
                => /\ pc' = "comboWait"
                   /\ cb'.depth = 1
                   /\ cb'.option = StrVal(cb.fallback)
                   /\ scans' = scans]_vars

\* a call that retried with the fallback and failed: two scans, one recursion
C8_Witness == cb.result = "false" /\ cb.depth = 1 /\ scans = 2 /\ pc = "info3"

\* C9: running the passes a second time leaves every control as the first
\* completed run left it.
C9_Idempotent == (pc = "done" /\ snap.taken) => ui = snap.ui

\* neither the option nor the fallback is rendered: the second run has
\* completed and the disclosure is not as the first run left it
C9_Witness ==
    /\ pc = "done"
    /\ runs = 2
    /\ snap.taken
    /\ TextEquals("Atlantis", Prop(clip.basic, "Nationality"))
    /\ "- Others" \notin tree.options["Country/Region"]
    /\ ui.combo["Country/Region"].open # snap.ui.combo["Country/Region"].open

\* the mapping of the record a region's checkboxes are set from
MappingOf(region) == IF region = SKILLS THEN clip.skills ELSE clip.comPlayingStyles

\* C10: when the region is found, after the skills pass (the COM styles
\* pass) a checkbox of the region is checked iff its label is a key of the
\* record's mapping.
C10_BulkThenOverride ==
    pc = "done" =>
        \A region \in {SKILLS, COMSTYLES} \cap tree.regions :
            \A f \in {g \in DOMAIN ui.check : g[1] = region} :
                ui.check[f] <=> f[2] \in DOMAIN MappingOf(region)

\* after the first run: a checkbox that was checked and is not named ends
\* unchecked, one that is named ends checked
C10_Witness ==
    /\ pc = "done"
    /\ runs = 1
    /\ SKILLS \in tree.regions
    /\ "Heading" \in DOMAIN clip.skills
    /\ ui.check[<<SKILLS, "Heading">>]
    /\ ~ui.check[<<SKILLS, "Captaincy">>]
    /\ "Trickster" \in DOMAIN clip.comPlayingStyles
    /\ ui.check[<<COMSTYLES, "Trickster">>]
    /\ ~ui.check[<<COMSTYLES, "Long Ranger">>]

\* the tier the record gives a position group, "none" when it names it not
RECURSIVE RecordTier(_, _)
RecordTier(entries, group) ==
    IF entries = <<>> THEN "none"
    ELSE IF entries[Len(entries)].code = group THEN entries[Len(entries)].tier
    ELSE RecordTier(SubSeq(entries, 1, Len(entries) - 1), group)

\* the position pass has completed and nothing after it has touched a radio
PositionPassOver == pc \in {"tail", "done"} /\ POSITION \in tree.regions

\* C11: when the region is found, after fillPosition completes each group
\* the record names has the record's tier selected, the group of the
\* registered position has A selected unless the record names it, and every
\* other group has C selected.
C11_PositionFinal ==
    PositionPassOver =>
        \A n \in 1..Len(PositionGroups) :
            LET group == PositionGroups[n]
                tier == RecordTier(clip.positions, group)
            IN  ui.radio[<<POSITION, group>>] =
                    IF tier # "none" THEN tier
                    ELSE IF TextEquals(group, Prop(clip.basic, "Registered Position"))
                         THEN "A"
                         ELSE "C"

\* the three cases at once: the registered CF named with B, RWF named with
\* A, and GK, which had A selected, neither named nor registered
C11_Witness ==
    /\ pc = "tail"
    /\ runs = 1
    /\ POSITION \in tree.regions
    /\ clip.positions # <<>>
    /\ ui.radio[<<POSITION, "CF">>] = "B"
    /\ ui.radio[<<POSITION, "RWF">>] = "A"
    /\ ui.radio[<<POSITION, "GK">>] = "C"

Absentees == {JsNull, JsUndefined}

InRun == pc \notin {"idle", "done", "failed"}

\* C12: the two setters, given null or undefined, return false and change
\* no control, whatever the label; a record without Age never changes the
\* Age control, the run is never stuck, the field is reported, and the Info
\* pass has written its later fields (Reputation, Height) when the run ends.
C12_MissingField ==
    /\ [](\A v \in Absentees :
            /\ \A f \in DOMAIN ui.text \cup {<<INFO, "no such label">>} :
                  /\ ~setInputReturns(ui, f[1], f[2], v)
                  /\ setInputByElementText(ui, f[1], f[2], v) = ui
            /\ \A f \in DOMAIN ui.check \cup {<<SKILLS, "no such label">>} :
                  /\ ~setCheckboxReturns(ui, f[1], f[2], v)
                  /\ setCheckboxByElementText(ui, f[1], f[2], v) = ui)
    /\ [][("Age" \notin DOMAIN clip.basic)
            => ui'.text[<<INFO, "Age">>] = ui.text[<<INFO, "Age">>]]_vars
    /\ [](InRun => ENABLED Next)
    /\ []((pc = "done" /\ "Age" \notin DOMAIN clip.basic /\ INFO \in tree.regions)
            => /\ <<INFO, "Age">> \in log
               /\ ui.text[<<INFO, "Reputation">>] = "6"
               /\ ui.text[<<INFO, "Height (cm)">>] # "old")

\* a completed run of a record without Age: the control still holds its old
\* value, the later fields are written
C12_Witness ==
    /\ pc = "done"
    /\ "Age" \notin DOMAIN clip.basic
    /\ INFO \in tree.regions
    /\ ui.text[<<INFO, "Age">>] = "old"
    /\ ui.text[<<INFO, "Player Name">>] = "L. Messi"
    /\ ui.text[<<INFO, "Reputation">>] = "6"
    /\ <<INFO, "Age">> \in log

\* the controls a region and a label name, whatever their kind
ControlsAt(u, f) ==
    [text |-> IF f \in DOMAIN u.text THEN u.text[f] ELSE "absent",
     check |-> IF f \in DOMAIN u.check THEN u.check[f] ELSE FALSE,
     radio |-> IF f \in DOMAIN u.radio THEN u.radio[f] ELSE "absent",
     combo |-> IF f[1] = INFO /\ f[2] \in DOMAIN u.combo THEN u.combo[f[2]]
               ELSE [open |-> FALSE, selected |-> "absent"]]

AllFields(u) ==
    DOMAIN u.text \cup DOMAIN u.check \cup DOMAIN u.radio
        \cup {<<INFO, l>> : l \in DOMAIN u.combo}

\* C13: a pass whose region is not found changes no control of it; a field
\* reported as failed has its controls as they were when the run began; the
\* run is never stuck; and at the end of the run every later pass and every
\* later field has still been handled.
C13_LookupLocal ==
    /\ [][\A f \in AllFields(ui) :
             f[1] \notin tree.regions => ControlsAt(ui', f) = ControlsAt(ui, f)]_vars
    /\ [](\A f \in log : f[2] # NotFound => ControlsAt(ui, f) = ControlsAt(start, f))
    /\ [](InRun => ENABLED Next)
    /\ [](pc = "done" =>
            /\ ABILITY \in tree.regions => ui.text[<<ABILITY, "Speed">>] = "85"
            /\ COMSTYLES \in tree.regions => ~ui.check[<<COMSTYLES, "Long Ranger">>]
            /\ (POSITION \in tree.regions /\ <<POSITION, "SS">> \in log)
                  => ui.radio[<<POSITION, "RWF">>] = "B")

\* the Country/Region field is reported as failed and its list is not as it
\* was when the run began
C13_Witness ==
    /\ pc = "done"
    /\ <<INFO, "Country/Region">> \in log
    /\ ui.combo["Country/Region"].open # start.combo["Country/Region"].open
    /\ ui.combo["Country/Region"].selected = start.combo["Country/Region"].selected

\* the part of C13 the code keeps: as C13_LookupLocal, the comboboxes put
\* aside
C13_LocalButCombobox ==
    /\ [][\A f \in AllFields(ui) :
             f[1] \notin tree.regions => ControlsAt(ui', f) = ControlsAt(ui, f)]_vars
    /\ [](\A f \in log :
            (f[2] # NotFound /\ f[2] \notin DOMAIN ui.combo)
                => ControlsAt(ui, f) = ControlsAt(start, f))
    /\ [](InRun => ENABLED Next)

\* C14: a failed read shows the alert and ends the run with no control
\* changed and parsePlayerText not called; controls change only in a run
\* that has parsed the text, and a failed run does nothing more.
C14_ClipboardFailure ==
    /\ [][(pc = "read" /\ pc' = "failed")
            => (ui' = ui /\ alerts' = alerts + 1 /\ ~parsed')]_vars
    /\ [](pc = "failed" => (ui = start /\ ~parsed))
    /\ [][ui' # ui => (parsed' /\ pc # "idle" /\ pc' \notin {"read", "failed"})]_vars
    /\ [](parsed => pc \notin {"idle", "read", "failed"})
    /\ [][pc = "failed" => (pc' \in {"failed", "read"} /\ ui' = ui)]_vars
    /\ [][alerts' # alerts => pc' = "failed"]_vars

\* a first run has filled the form, the read of the second run has failed
C14_Witness ==
    /\ pc = "failed"
    /\ runs = 2
    /\ snap.taken
    /\ alerts = 1
    /\ ui = snap.ui

\* the Info controls of the appearance entries
AppearanceControls == {<<"Height (cm)", "Height">>, <<"Weight (kg)", "Weight">>}

\* the appearance texts that start with an integer, and its decimal digits
UnitStripped ==
    [s \in {"169", "169 cm", "72kg"} |-> IF s = "72kg" THEN "72" ELSE "169"]

StartsWithInteger(v) == v.t = "str" /\ v.s \in DOMAIN UnitStripped

\* the step of the Info pass that handles Height and Weight
HeightWeightStep == pc = "info3" /\ pc' # "info3"

\* C17: the Info pass writes into Height (cm) and Weight (kg) the decimal
\* integer of the record's appearance entry, its unit stripped; when the
\* entry is missing or does not start with an integer the control is left
\* unchanged and the field is reported as failed.
C17_HeightWeight ==
    [][HeightWeightStep =>
          \A c \in AppearanceControls :
              LET entry == Prop(clip.appearance, c[2])
                  f == <<INFO, c[1]>>
              IN  IF StartsWithInteger(entry)
                  THEN ui'.text[f] = UnitStripped[entry.s]
                  ELSE ui'.text[f] = ui.text[f] /\ f \in log'
      ]_vars

\* the Info pass has handled a record with the Height "169 cm" and without
\* a Weight: Height (cm) holds 169, Weight (kg) holds the text NaN and is
\* not reported
C17_Witness ==
    /\ pc = "comboWait"
    /\ cb.label = "Playing Style"
    /\ Prop(clip.appearance, "Height") = StrVal("169 cm")
    /\ "Weight" \notin DOMAIN clip.appearance
    /\ ui.text[<<INFO, "Height (cm)">>] = "169"
    /\ ui.text[<<INFO, "Weight (kg)">>] = "NaN"
    /\ <<INFO, "Weight (kg)">> \notin log

\* the part of C17 the code keeps: an entry that starts with an integer
\* writes that integer, and the step reports neither field
C17_IntegerEntries ==
    [][HeightWeightStep =>
          \A c \in AppearanceControls :
              LET entry == Prop(clip.appearance, c[2])
                  f == <<INFO, c[1]>>
              IN  /\ StartsWithInteger(entry) => ui'.text[f] = UnitStripped[entry.s]
                  /\ f \in log' <=> f \in log
      ]_vars

\* the passes of a run in the order of setPlayerData
PassOrder ==
    <<"fillInfo", "fillPosition", "fillAbility", "fillPlayerSkills", "fillCOMPlayingstyles">>

\* the pass that works on a region
PassOf(region) ==
    CASE region = INFO -> "fillInfo"
      [] region = POSITION -> "fillPosition"
      [] region = ABILITY -> "fillAbility"
      [] region = SKILLS -> "fillPlayerSkills"
      [] region = COMSTYLES -> "fillCOMPlayingstyles"

IsPrefix(s, t) == Len(s) <= Len(t) /\ s = SubSeq(t, 1, Len(s))

\* the passes at work in a step: the ones it begins, else the last begun
PassesOfStep ==
    IF order' # order THEN {order'[n] : n \in (Len(order) + 1)..Len(order')}
    ELSE IF order = <<>> THEN {}
    ELSE {order[Len(order)]}

\* the fields a step changes
ChangedFields == {f \in AllFields(ui) : ControlsAt(ui', f) # ControlsAt(ui, f)}

\* the points of setPlayerData between two passes
BetweenPasses == pc \in {"read", "position", "tail"}

\* C18: the passes of one run begin in the order Info, Position, Ability,
\* Skills, COM styles, each once; a step changes controls only of a pass it
\* begins or, if it begins none, of the pass begun last, so a pass has made
\* its last change before the next one begins, waits and ticks included; a
\* pass begins only where setPlayerData has got the previous one back; and
\* a run that ends has gone through all five.
C18_PassOrdering ==
    /\ [](IsPrefix(order, PassOrder))
    /\ [][InRun /\ order' # <<>> => \A f \in ChangedFields : PassOf(f[1]) \in PassesOfStep]_vars
    /\ [][(InRun /\ order' # order) => (BetweenPasses /\ IsPrefix(order, order'))]_vars
    /\ [](pc = "done" => order = PassOrder)

\* a run is suspended in the requested-positions loop of the Position pass
\* after the Info pass has changed the Info controls
C18_Witness ==
    /\ pc = "selTick"
    /\ sel.next = "posLoop"
    /\ order = <<"fillInfo", "fillPosition">>
    /\ ui.text[<<INFO, "Player Name">>] = "L. Messi"
    /\ ui.radio[<<POSITION, "GK">>] = "C"

\* the call of setSelectByElementText that the Position pass makes next
PositionSelect ==
    IF pc = "posReg"
    THEN [label |-> Prop(clip.basic, "Registered Position").s, value |-> "A"]
    ELSE [label |-> Head(ptodo).code, value |-> Head(ptodo).tier]

\* the labeled group and its option with the requested value exist
OptionExists(root, label, value) ==
    /\ <<root, label>> \in DOMAIN ui.radio
    /\ value \in (IF root = INFO THEN {"L", "R"} ELSE {"A", "B", "C"})

\* the controls after the click on the option: checked, or as they were
AfterClick(key, value) == {ui, [ui EXCEPT !.radio[key] = value]}

LeftAt(point) ==
    CASE point = "tail" -> 1
      [] point = "posLoop" -> 3 * Len(ptodo) + 2
      [] point = "posReg" -> 3 * Len(ptodo) + 5
      [] point = "position" -> 2 * Len(PositionGroups) + 3 * Len(clip.positions) + 6
      [] point = "info3" -> 2 * Len(PositionGroups) + 3 * Len(clip.positions) + 10
      [] point = "info2" -> 2 * Len(PositionGroups) + 3 * Len(clip.positions) + 14
      [] point = "read" -> 2 * Len(PositionGroups) + 3 * Len(clip.positions) + 17
      [] OTHER -> 0

\* the same for a run suspended inside one of the awaited helpers
Left ==
    CASE pc = "selTick" -> 2 + LeftAt(sel.next)
      [] pc = "selTick2" -> 1 + LeftAt(sel.next)
      [] pc = "comboWait" -> (IF cb.depth = 0 THEN 3 ELSE 1) + LeftAt(cb.next)
      [] pc = "comboClose" -> 2 + LeftAt(cb.next)
      [] pc = "bulkTick" -> 2 * Len(bulk) + LeftAt("posReg")
      [] pc = "bulkTick2" -> 2 * Len(bulk) - 1 + LeftAt("posReg")
      [] OTHER -> LeftAt(pc)

\* the most suspension points of a run: a constant, two for each radio of
\* the bulk default, three for each position of the record
SuspBound == 17 + 2 * Len(PositionGroups) + 3 * Len(clip.positions)

PlayersActive == \E i \in 1..Len(tabs) : tabs[i].text = "Players" /\ tabs[i].active

\* C15: whenever checkPlayersTab has just run, exactly one Paste Stats
\* button exists if a button with the text Players carries the active
\* marker, and none otherwise.
C15_TriggerVisibility == fresh => btn = (IF PlayersActive THEN 1 ELSE 0)

\* two buttons with the text Players, only the second one active
C15_Witness ==
    /\ fresh
    /\ Len(tabs) = 2
    /\ tabs[1] = [text |-> "Players", active |-> FALSE]
    /\ tabs[2] = [text |-> "Players", active |-> TRUE]
    /\ btn = 0

\* the part of C15 the code keeps: the button follows the first button with
\* the text Players, and there is never more than one
C15_FirstPlayersTab ==
    /\ btn \in {0, 1}
    /\ fresh => btn = (IF \E i \in 1..Len(tabs) :
                             /\ tabs[i].text = "Players"
                             /\ tabs[i].active
                             /\ \A j \in 1..(i - 1) : tabs[j].text # "Players"
                       THEN 1 ELSE 0)

(***************************************************************************)
(* Properties of getElementByText.                                         *)
(***************************************************************************)
\* the texts of the text nodes that are children of el itself, trimmed
DirectTexts(el) ==
    {TrimText(el.kids[i].s) : i \in {j \in 1..Len(el.kids) : el.kids[j].tag = "#text"}}

\* the texts of the child elements of el, trimmed
ChildTexts(el) ==
    {TrimText(textContent(el.kids[i])) :
         i \in {j \in 1..Len(el.kids) : el.kids[j].tag # "#text"}}

ReturnedElement == found.returned /\ found.el # Null

\* C19: the element getElementByText returns has the text looked for as
\* its own direct text; an ancestor that only holds the text inside a child
\* element is never returned.
C19_OwnDirectText ==
    ReturnedElement => needle \in DirectTexts(ElementAt(groot, found.el))

\* the div around <label>Age</label> is returned for "Age"
C19_Witness ==
    /\ ReturnedElement
    /\ groot = <<Element("div", <<Element("label", <<TextNode("Age")>>)>>)>>
    /\ found.el = <<1>>

\* the part of C19 the code keeps: the text looked for is, in its exact
\* spelling, a direct text or the text of a child element of the element
\* returned
C19_ExactText ==
    ReturnedElement =>
        LET el == ElementAt(groot, found.el)
        IN  Selected(el) /\ needle \in DirectTexts(el) \cup ChildTexts(el)

(***************************************************************************)
(* Properties of the loop of setAllRadiosToValue.                          *)
(***************************************************************************)
\* C22: no node found before a suspension is read or written after the
\* page has replaced it: every read and every write of the loop is applied
\* to a node that is in the tree.
C22_NoStaleNode == detached = {}

\* the loop has returned after it wrote to a radio the page had replaced,
\* and the radio that is in the tree is not checked
C22_Witness ==
    /\ bpc = "return"
    /\ <<1, 0>> \in detached
    /\ gen[1] = 1
    /\ ~checked[<<1, 1>>]

\* the part of C22 the code keeps: without a replacement by the page every
\* radio of the list is in the tree, and is checked when the loop returns
C22_SameNodes ==
    (\A g \in DOMAIN gen : gen[g] = 0) =>
        /\ detached = {}
        /\ bpc = "return" => \A g \in DOMAIN gen : checked[<<g, 0>>]

(***************************************************************************)
(* Properties of getContentByDivTitle.                                     *)
(***************************************************************************)
ElementPaths ==
    {<<i>> : i \in 1..Len(doc)}
        \cup UNION {{<<i, j>> : j \in 1..Len(doc[i].kids)} : i \in 1..Len(doc)}

\* the elements whose trimmed text is exactly the title
Titled == {p \in ElementPaths : TrimmedTextContent(ElementIn(doc, p)) = <<"Info">>}

\* q is the element that follows p at once, below the same parent
FollowsAtOnce(p, q) ==
    /\ Len(p) = Len(q)
    /\ \A n \in 1..(Len(p) - 1) : p[n] = q[n]
    /\ q[Len(q)] = p[Len(p)] + 1

ContainsInput(p) ==
    LET e == ElementIn(doc, p) IN e.input \/ \E j \in 1..Len(e.kids) : e.kids[j].input

\* C23: getContentByDivTitle returns a region only if it follows at once an
\* element whose trimmed text is exactly the title and holds an input; it
\* returns not-found when no element has that text, and when no element
\* with that text is followed by an element that holds an input.
C23_ContentRegion ==
    dpc = "returned" =>
        /\ contentDiv # Null =>
              /\ contentDiv \in ElementPaths
              /\ \E p \in Titled : FollowsAtOnce(p, contentDiv)
              /\ ContainsInput(contentDiv)
        /\ Titled = {} => contentDiv = Null
        /\ (\A p \in Titled :
               \A q \in ElementPaths : FollowsAtOnce(p, q) => ~ContainsInput(q))
           => contentDiv = Null

\* the region after a title that lies inside a wrapper has been returned,
\* where the element after that wrapper holds no input
C23_Witness ==
    /\ dpc = "returned"
    /\ Len(doc) = 2
    /\ Len(doc[1].kids) = 2
    /\ doc[1].kids[1].words = <<"Info">>
    /\ doc[1].kids[1].tag = "div"
    /\ doc[1].kids[2].input
    /\ ~ContainsInput(<<2>>)
    /\ contentDiv = <<1, 2>>

(***************************************************************************)
(* Properties of the Ability pass of a run.                                 *)
(***************************************************************************)
\* the step in which setPlayerData calls fillAbility
AbilityStep == pc = "tail" /\ pc' = "done"

\* C24: the Ability pass changes only text controls of the Ability region
\* whose label is a key of record.stats; a control of the region with
\* another label and every control of another region come out of the pass
\* as they went in, and the text controls the run ends with are those the
\* pass left.
C24_AbilityFrame ==
    [][AbilityStep =>
          LET after == fillAbility(ui, clip.stats)
          IN  /\ after.check = ui.check
              /\ after.radio = ui.radio
              /\ after.combo = ui.combo
              /\ \A f \in DOMAIN ui.text :
                     (f[1] # ABILITY \/ f[2] \notin DOMAIN clip.stats)
                         => after.text[f] = ui.text[f]
              /\ ui'.text = after.text]_vars

\* the pass has written Speed and left Stamina, which the record does not
\* name, as it was
C24_Witness ==
    /\ pc = "done"
    /\ runs = 1
    /\ ABILITY \in tree.regions
    /\ "Speed" \in DOMAIN clip.stats
    /\ "Stamina" \notin DOMAIN clip.stats
    /\ ui.text[<<ABILITY, "Speed">>] = "85"
    /\ ui.text[<<ABILITY, "Stamina">>] = "old"

(***************************************************************************)
(* Properties of the comboboxes of the Info pass when the record has no    *)
(* value for them.  start is the state of the controls at the click.       *)
(***************************************************************************)
NoNationality == "Nationality" \notin DOMAIN clip.basic

NoPlayingStyle == clip.playingStyle = StrVal("")

SelectedOf(u, label) == u.combo[label].selected

\* C27: a run with a record without Nationality ends with the option of
\* Country/Region that was selected at the click, and a run with an empty
\* playingStyle with the option of Playing Style that was selected at the
\* click.
C27_NoValueKeepsSelection ==
    pc = "done" =>
        /\ NoNationality =>
              SelectedOf(ui, "Country/Region") = SelectedOf(start, "Country/Region")
        /\ NoPlayingStyle =>
              SelectedOf(ui, "Playing Style") = SelectedOf(start, "Playing Style")

\* the record names neither and the run has selected both fallback options
C27_Witness ==
    /\ pc = "done"
    /\ runs = 1
    /\ NoNationality
    /\ NoPlayingStyle
    /\ SelectedOf(start, "Country/Region") = "none"
    /\ SelectedOf(ui, "Country/Region") = "- Others"
    /\ SelectedOf(start, "Playing Style") = "none"
    /\ SelectedOf(ui, "Playing Style") = "N/A"

\* the part of C27 the code keeps: without a value no option other than the
\* fallback is selected, and none with an empty text
C27_OnlyFallback ==
    pc = "done" =>
        /\ NoNationality =>
              SelectedOf(ui, "Country/Region")
                  \in {SelectedOf(start, "Country/Region"), "- Others"}
        /\ NoPlayingStyle =>
              SelectedOf(ui, "Playing Style") \in {SelectedOf(start, "Playing Style"), "N/A"}

(***************************************************************************)
(* Properties of runs that several clicks start.                           *)
(***************************************************************************)
UnderWay == {r \in Clicks : runpc[r] \notin {"idle", "done"}}

AllDone == \A r \in Clicks : runpc[r] = "done"

\* C26: at most one run is under way at any time, and when all runs have
\* ended every control shows the record of the run started last.
C26_NoInterleaving ==
    /\ Cardinality(UnderWay) <= 1
    /\ AllDone => \A c \in FormControls : form[c] = record[MaxClicks]

\* both runs have ended; the first one wrote Height (cm) after the second,
\* so the form mixes the two players
C26_Witness ==
    /\ AllDone
    /\ record[1] = "A"
    /\ record[2] = "B"
    /\ form["Player Name"] = "B"
    /\ form["Height (cm)"] = "A"
    /\ form["Speed"] = "B"

\* the part of C26 the code keeps: a single run leaves its own record in
\* every control
C26_OneRun ==
    (runpc[1] = "done" /\ runpc[2] = "idle") =>
        \A c \in FormControls : form[c] = record[1]

(***************************************************************************)
(* Properties of setNationality of the earlier script.                     *)
(***************************************************************************)
\* neither the country asked for nor "- Others" is rendered
NoneRendered == natCountry \notin natOptions /\ "- Others" \notin natOptions

\* C28: setNationality makes at most one call with "- Others" when neither
\* the country nor "- Others" is rendered, returns failure, and fillInfo
\* goes on after it.
C28_Terminates ==
    /\ [](NoneRendered => natCalls <= 2)
    /\ [](NoneRendered /\ natpc = "returned" => natResult = FALSE)
    /\ (natpc = "wait") ~> (natpc = "info")

\* nothing is rendered and the call with "- Others" has been made more than
\* once
C28_Witness ==
    /\ NoneRendered
    /\ natpc = "wait"
    /\ natArg = "- Others"
    /\ natCalls = MaxCalls

\* the part of C28 the code keeps: with "- Others" rendered the call returns
\* after one call with "- Others" at most, and fillInfo goes on
C28_FallbackRendered ==
    /\ []("- Others" \in natOptions => natCalls <= 2)
    /\ ("- Others" \in natOptions /\ natpc = "wait") ~> (natpc = "info")

====
